---------------------------- MODULE Spec2Model ----------------------------
(***************************************************************************)
(* A model of the Reed-Solomon erasure coder of kelp (src/rs.c,            *)
(* src/rs_avx2.c): the GF(2^8) tables, the bulk kernels, the matrix        *)
(* engine, rs_new, rs_encode, rs_decode and rs_generic_galois_coding.      *)
(*                                                                         *)
(* C arrays are functions over 0..len-1, row-major as in the source, so    *)
(* that every index expression of the code is kept as written.  A read     *)
(* outside an allocation, or of bytes malloc returned and nobody wrote,    *)
(* yields a byte of the heap image the calling action chose.               *)
(***************************************************************************)
EXTENDS Integers, Sequences, FiniteSets, TLC

(***************************************************************************)
(* Bounds of the model.                                                    *)
(***************************************************************************)
MaxK == 3            \* data shards of the coders the driver builds
MaxM == 2            \* parity shards of the coders the driver builds
MaxSeed == 1         \* data patterns 0..MaxSeed
MaxHeap == 1         \* heap images 0..MaxHeap behind out-of-bounds reads
MaxNewK == 8         \* rs_new is tried on data_shards in -1..MaxNewK
MaxNewM == 8         \* rs_new is tried on parity_shards in -1..MaxNewM
MaxCauchyRows == 6   \* cauchy(N,K) is built for N in 1..MaxCauchyRows
MaxCauchyCols == 4   \* and K in 1..MaxCauchyCols
MaxKernelLen == 130  \* the bulk kernels run on lengths 0..MaxKernelLen
MaxInitBits == 2     \* SpecInit runs init_gf on a field of 2^MaxInitBits elements
MaxSpreadK == 3      \* spread_data runs on k in 1..MaxSpreadK blocks
MaxSpreadRounds == 2 \* and on buffers of 0..MaxSpreadRounds rounds of 16 * k bytes
MaxBlockPositions == 12 \* payload offsets at which SpecChecksum changes a byte
MaxShardId == 3      \* shard ids of the sorted headers of SpecStripe are 0..MaxShardId
MaxStripe == 2       \* computeOffsetToBlock runs on stripes 0..MaxStripe
MaxOps == 2          \* the caller enqueues at most MaxOps reads and writes
MaxPages == 2        \* of 1 or MaxPages pages each
MaxInvertEntry == 2  \* entries of the matrices of SpecInvert: 0..MaxInvertEntry, or 0, 1, MaxInvertEntry
MaxBatch == 1        \* events per io_getevents call (MAX_EVENTS, 128 in the source)

(***************************************************************************)
(* Bit operations on C ints.                                               *)
(***************************************************************************)
RECURSIVE XorBits(_, _)
XorBits(a, b) ==
    IF a = 0 THEN b
    ELSE IF b = 0 THEN a
    ELSE ((a + b) % 2) + 2 * XorBits(a \div 2, b \div 2)

XorTab == [a \in 0..255 |-> [b \in 0..255 |-> XorBits(a, b)]]

\* a ^ b on two bytes
Xor(a, b) == XorTab[a][b]

\* XOR of Term(lo), ..., Term(hi-1); 0 when the range is empty
RECURSIVE XorOver(_, _, _)
XorOver(Term(_), lo, hi) ==
    IF hi <= lo THEN 0
    ELSE IF hi = lo + 1 THEN Term(lo)
    ELSE LET mid == (lo + hi) \div 2
         IN Xor(XorOver(Term, lo, mid), XorOver(Term, mid, hi))

(***************************************************************************)
(* The field tables, as init_gf leaves them.                               *)
(***************************************************************************)
GF_SIZE == 256

\* x = (x << 1) ^ ((x & 0x80) ? 0x1d : 0); x &= 0xFF
ExpStep(x) == XorBits(2 * x, IF (x \div 128) % 2 = 1 THEN 29 ELSE 0) % GF_SIZE

\* the values x takes in len successive iterations of the first loop
RECURSIVE ExpRun(_, _)
ExpRun(x, len) ==
    IF len = 1 THEN <<x>>
    ELSE LET left == ExpRun(x, len \div 2)
         IN left \o ExpRun(ExpStep(left[Len(left)]), len - (len \div 2))

ExpSeq == ExpRun(1, GF_SIZE - 1)

gf_exp == [i \in 0..(GF_SIZE * 2 - 1) |-> ExpSeq[(i % (GF_SIZE - 1)) + 1]]

gf_log == [x \in 0..(GF_SIZE - 1) |->
             IF x = 0 THEN -1
             ELSE CHOOSE i \in 0..(GF_SIZE - 2) : ExpSeq[i + 1] = x]

\* gf_mul_direct reducing the exponent modulo the table size, not the group order
gf_mul_direct_mod_size(a, b) ==
    IF a = 0 \/ b = 0 THEN 0
    ELSE gf_exp[(gf_log[a] + gf_log[b]) % GF_SIZE]

gf_mul_direct(a, b) ==
    IF a = 0 \/ b = 0 THEN 0
    ELSE gf_exp[(gf_log[a] + gf_log[b]) % (GF_SIZE - 1)]

\* gf_div_direct with the two logarithms subtracted the wrong way round
gf_div_direct_swapped(a, b) ==
    IF a = 0 THEN 0
    ELSE gf_exp[(gf_log[b] - gf_log[a] + (GF_SIZE - 1)) % (GF_SIZE - 1)]

\* called by init_gf with b # 0 only
gf_div_direct(a, b) ==
    IF a = 0 THEN 0
    ELSE gf_exp[(gf_log[a] - gf_log[b] + (GF_SIZE - 1)) % (GF_SIZE - 1)]

gf_mul_table == [x \in 0..(GF_SIZE * GF_SIZE - 1) |->
                   gf_mul_direct(x \div GF_SIZE, x % GF_SIZE)]

\* column 0 is never written: the table is a zero-initialised global
gf_div_table == [x \in 0..(GF_SIZE * GF_SIZE - 1) |->
                   IF x % GF_SIZE # 0
                   THEN gf_div_direct(x \div GF_SIZE, x % GF_SIZE)
                   ELSE 0]

gf_mul(a, b) == gf_mul_table[a * GF_SIZE + b]

gf_div(a, b) == gf_div_table[a * GF_SIZE + b]

(***************************************************************************)
(* The bulk kernels of src/rs_avx2.c.  In one iteration of the 64-byte     *)
(* loop, byte b (0..31) of the first store is                              *)
(*   lut[lo(s1)] ^ lut[16+hi(s1)] ^ lut[32+lo(s2)] ^ lut[48+hi(s2)]        *)
(* and byte b of the second store the same with tables lut[64..127],       *)
(* where s1 = src[i+b], s2 = src[i+32+b], lo = low nibble, hi = high       *)
(* nibble and lut = &gf_mul_table[c << 8].                                 *)
(***************************************************************************)
Lut(c, x) == gf_mul_table[c * 256 + x]

\* _mm256_shuffle_epi8 of the four tables starting at lut[base]
Shuffle4(c, base, s1, s2) ==
    Xor(Xor(Lut(c, base + (s1 % 16)), Lut(c, base + 16 + (s1 \div 16))),
        Xor(Lut(c, base + 32 + (s2 % 16)), Lut(c, base + 48 + (s2 \div 16))))

\* the value of i when the loop "for (i = 0; i + 64 <= sz; i += 64)" exits
LoopEnd(sz) == IF sz < 64 THEN 0 ELSE 64 * (sz \div 64)

\* what one 64-byte iteration computes for position i of the buffer
Vec64(src, c, i) ==
    LET base == 64 * (i \div 64)
        b == i % 32
    IN Shuffle4(c, IF i % 64 < 32 THEN 0 ELSE 64, src[base + b], src[base + 32 + b])

mul1_avx2(dst, src, c, sz) ==
    [i \in DOMAIN dst |->
        IF i < LoopEnd(sz) THEN Vec64(src, c, i)
        ELSE IF i < sz THEN gf_mul_table[c * 256 + src[i]]
        ELSE dst[i]]

mul_add1_avx2(dst, src, c, sz) ==
    [i \in DOMAIN dst |->
        IF i < LoopEnd(sz) THEN Xor(dst[i], Vec64(src, c, i))
        ELSE IF i < sz THEN Xor(dst[i], gf_mul_table[c * 256 + src[i]])
        ELSE dst[i]]

add1_avx2(dst, src, sz) ==
    [i \in DOMAIN dst |-> IF i < sz THEN Xor(dst[i], src[i]) ELSE dst[i]]

\* memcpy(dst, src, sz)
memcpy(dst, src, sz) ==
    [i \in DOMAIN dst |-> IF i < sz THEN src[i] ELSE dst[i]]

\* memset(dst, v, sz)
memset(dst, v, sz) ==
    [i \in DOMAIN dst |-> IF i < sz THEN v ELSE dst[i]]

(***************************************************************************)
(* The matrix engine of src/rs.c.                                          *)
(***************************************************************************)
\* matrix[i * cols + j] = gf_div_table[256*1 + i ^ (rows + j)]: in C, + binds
\* tighter than ^, so the index is (256 + i) ^ (rows + j)
\* cauchy without the offset that keeps the x and y of 1/(x+y) apart
cauchy_no_offset(rows, cols) ==
    [x \in 0..(rows * cols - 1) |->
        gf_div_table[XorBits(256 * 1 + (x \div cols), x % cols)]]

cauchy(rows, cols) ==
    [x \in 0..(rows * cols - 1) |->
        gf_div_table[XorBits(256 * 1 + (x \div cols), rows + (x % cols))]]

sub_matrix(matrix, rmin, cmin, rmax, cmax, nrows, ncols) ==
    [p \in 0..((rmax - rmin) * (cmax - cmin) - 1) |->
        matrix[(rmin + (p \div (cmax - cmin))) * ncols + cmin + (p % (cmax - cmin))]]

\* reads a and b as n x n matrices, whatever their allocation
matrix_multiply(a, b, n) ==
    [p \in 0..(n * n - 1) |->
        LET i == p \div n
            j == p % n
            Term(k) == gf_mul(a[i * n + k], b[k * n + j])
        IN XorOver(Term, 0, n)]

\* multiply1 reading b by columns where it should read it by rows
multiply1_transposed(a, ar, ac, b, br, bc) ==
    [p \in 0..(ar * bc - 1) |->
        LET r == p \div bc
            c == p % bc
            Term(i) == gf_mul(a[r * ac + i], b[c * bc + i])
        IN XorOver(Term, 0, ac)]

multiply1(a, ar, ac, b, br, bc) ==
    [p \in 0..(ar * bc - 1) |->
        LET r == p \div bc
            c == p % bc
            Term(i) == gf_mul(a[r * ac + i], b[i * bc + c])
        IN XorOver(Term, 0, ac)]

is_identity(matrix, n) ==
    \A p \in 0..(n * n - 1) :
        matrix[p] = (IF (p \div n) = (p % n) THEN 1 ELSE 0)

\* the identity matrix_invert starts its shadow from
Identity(n) == [p \in 0..(n * n - 1) |-> IF (p \div n) = (p % n) THEN 1 ELSE 0]

\* the pivot search that never looks below the diagonal
PivotRow_diagonal_only(matrix, i, n) ==
    IF matrix[i * n + i] # 0 THEN i ELSE n

\* the row the pivot search of step i ends on: i itself when matrix[i][i] # 0,
\* else the first j > i with matrix[j][i] # 0, else n
PivotRow(matrix, i, n) ==
    IF matrix[i * n + i] # 0 THEN i
    ELSE IF \E j \in (i + 1)..(n - 1) : matrix[j * n + i] # 0
         THEN CHOOSE j \in (i + 1)..(n - 1) :
                  /\ matrix[j * n + i] # 0
                  /\ \A l \in (i + 1)..(j - 1) : matrix[l * n + i] = 0
         ELSE n

SwapRows(m, i, j, n) ==
    [p \in DOMAIN m |->
        IF (p \div n) = i THEN m[j * n + (p % n)]
        ELSE IF (p \div n) = j THEN m[i * n + (p % n)]
        ELSE m[p]]

\* row i of m multiplied by temp
ScaleRow(m, i, temp, n) ==
    [p \in DOMAIN m |-> IF (p \div n) = i THEN gf_mul(m[p], temp) ELSE m[p]]

\* every row j # i of m gets temp_j * (row i of m) added, temp_j = pivcol[j][i]
Eliminate(m, pivcol, i, n) ==
    [p \in DOMAIN m |->
        IF (p \div n) = i THEN m[p]
        ELSE Xor(m[p], gf_mul(pivcol[(p \div n) * n + i], m[i * n + (p % n)]))]

\* The three parts of one iteration of the Gauss-Jordan loop, on the pair
\* st = [matrix, inverse].  (Each part is bound to its value before the next
\* reads it: { F(x) : x \in {e} } evaluates e once.)
PivotSwap(st, i, piv, n) ==
    IF piv = i THEN st
    ELSE [matrix |-> SwapRows(st.matrix, i, piv, n),
          inverse |-> SwapRows(st.inverse, i, piv, n)]

\* if (matrix[i * n + i] != 1) { temp = gf_div_table[256*1 + matrix[i * n + i]]; ... }
PivotScale(st, i, n) ==
    IF st.matrix[i * n + i] = 1 THEN st
    ELSE [matrix |-> ScaleRow(st.matrix, i,
                              gf_div_table[256 * 1 + st.matrix[i * n + i]], n),
          inverse |-> ScaleRow(st.inverse, i,
                               gf_div_table[256 * 1 + st.matrix[i * n + i]], n)]

PivotEliminate(st, i, n) ==
    [matrix |-> Eliminate(st.matrix, st.matrix, i, n),
     inverse |-> Eliminate(st.inverse, st.matrix, i, n)]

\* iterations i..n-1 of the Gauss-Jordan loop, then the memcpy and return 1;
\* return 0 leaves the matrix as the failing iteration found it
RECURSIVE GaussJordan(_, _, _)
GaussJordan(st, i, n) ==
    IF i >= n THEN [ret |-> 1, matrix |-> st.inverse]
    ELSE IF PivotRow(st.matrix, i, n) = n THEN [ret |-> 0, matrix |-> st.matrix]
    ELSE CHOOSE r \in
            {GaussJordan(s3, i + 1, n) :
                s3 \in {PivotEliminate(s2, i, n) :
                    s2 \in {PivotScale(s1, i, n) :
                        s1 \in {PivotSwap(st, i, PivotRow(st.matrix, i, n), n)}}}} : TRUE

\* [ret |-> what matrix_invert returns, matrix |-> the caller's array afterwards]
matrix_invert(matrix, n) ==
    CHOOSE r \in {GaussJordan(st, 0, n) :
                    st \in {[matrix |-> matrix, inverse |-> Identity(n)]}} : TRUE

(***************************************************************************)
(* The coder.  Allocations are taken to succeed.                           *)
(***************************************************************************)
NULL == [null |-> TRUE]

DATA_SHARDS_MAX == 255

\* rs_new from the inverted top block on: rs->matrix = vm * top^-1, and
\* rs->parity its rows data_shards..shards-1
RsFinish(matrix, data_shards, parity_shards) ==
    [data_shards |-> data_shards,
     parity_shards |-> parity_shards,
     shards |-> data_shards + parity_shards,
     matrix |-> matrix,
     parity |-> sub_matrix(matrix, data_shards, 0, data_shards + parity_shards,
                           data_shards, data_shards + parity_shards, data_shards)]

\* rs_new from the Cauchy matrix vm on
RsFromCauchy(vm, data_shards, parity_shards) ==
    CHOOSE r \in
       {IF inv.ret = 0 THEN NULL
        ELSE CHOOSE q \in
               {RsFinish(matrix, data_shards, parity_shards) :
                  matrix \in {multiply1(vm, data_shards + parity_shards, data_shards,
                                        inv.matrix, data_shards, data_shards)}} : TRUE :
          inv \in {matrix_invert(top, data_shards) :
                     top \in {sub_matrix(vm, 0, 0, data_shards, data_shards,
                                         data_shards + parity_shards, data_shards)}}} : TRUE

rs_new(data_shards, parity_shards) ==
    IF \/ data_shards + parity_shards > DATA_SHARDS_MAX
       \/ data_shards <= 0
       \/ parity_shards <= 0
    THEN NULL
    ELSE CHOOSE r \in
           {RsFromCauchy(vm, data_shards, parity_shards) :
              vm \in {cauchy(data_shards + parity_shards, data_shards)}} : TRUE

\* the byte at offset idx of heap image h: what a read outside an allocation,
\* or of malloc'd bytes nobody wrote, finds there
HeapByte(h, idx) == IF h < 2 THEN h ELSE (h * 41 + idx * 29) % 256

\* arr[idx] as C reads it: the array when idx is inside it, the heap otherwise
Rd(arr, idx, h) == IF idx \in DOMAIN arr THEN arr[idx] ELSE HeapByte(h, idx)

\* parity[i] = buf after the body of the j loop of rs_encode has run for j
EncodeTerm(rs, data, i, j, buf, first, shard_size) ==
    LET coeff == rs.matrix[(rs.data_shards + i) * rs.data_shards + j]
    IN IF coeff = 0 THEN buf
       ELSE IF first
       THEN IF coeff = 1 THEN memcpy(buf, data[j], shard_size)
            ELSE mul1_avx2(buf, data[j], coeff, shard_size)
       ELSE IF coeff = 1 THEN add1_avx2(buf, data[j], shard_size)
            ELSE mul_add1_avx2(buf, data[j], coeff, shard_size)

\* parity[i] after iterations j..data_shards-1 of the j loop, from buf and first
RECURSIVE EncodeRow(_, _, _, _, _, _, _)
EncodeRow(rs, data, i, j, buf, first, shard_size) ==
    IF j >= rs.data_shards THEN buf
    ELSE CHOOSE r \in
           {EncodeRow(rs, data, i, j + 1, nbuf,
                      first /\ rs.matrix[(rs.data_shards + i) * rs.data_shards + j] = 0,
                      shard_size) :
              nbuf \in {EncodeTerm(rs, data, i, j, buf, first, shard_size)}} : TRUE

\* the parity buffers after rs_encode; it writes through parity[i] only
rs_encode(rs, data, parity, shard_size) ==
    [i \in DOMAIN parity |->
        IF i < rs.parity_shards
        THEN EncodeRow(rs, data, i, 0, parity[i], TRUE, shard_size)
        ELSE parity[i]]

\* the indices i < total_shards with erasures[i] == 0
ValidSet(erasures, total_shards) ==
    {i \in 0..(total_shards - 1) : erasures[i] = 0}

\* valid_shards filled without looking at the flags: the first indexes
ValidShard_unflagged(erasures, total_shards, k) == k

\* valid_shards[k]: the k-th index, in increasing order, with erasures[i] == 0
ValidShard(erasures, total_shards, k) ==
    CHOOSE i \in ValidSet(erasures, total_shards) :
        Cardinality({l \in ValidSet(erasures, total_shards) : l < i}) = k

\* shards[i] = buf after iterations j..data_shards-1 of
\* "for (j...) mul_add1_avx2(shards[i], shards[valid_shards[j]], coeff)";
\* submatrix holds data_shards * data_shards bytes, indexed with the shard index i
RECURSIVE DecodeRow(_, _, _, _, _, _, _, _)
DecodeRow(rs, shards, erasures, submatrix, i, j, buf, env) ==
    IF j >= rs.data_shards THEN buf
    ELSE CHOOSE r \in
           {DecodeRow(rs, shards, erasures, submatrix, i, j + 1, nbuf, env) :
              nbuf \in {mul_add1_avx2(buf, shard, coeff, env.shard_size) :
                          shard \in {shards[ValidShard(erasures, rs.shards, j)]},
                          coeff \in {Rd(submatrix, i * rs.data_shards + j, env.heap)}}} : TRUE

\* a reconstruction loop that does not test erasures[i]: every shard is rebuilt
DecodeRebuild_every_shard(rs, shards, erasures, inv, env) ==
    IF inv.ret = 0
    THEN [ret |-> 0, shards |-> shards]
    ELSE [ret |-> 1,
          shards |->
             [i \in DOMAIN shards |->
                 CHOOSE r \in
                    {DecodeRow(rs, shards, erasures, inv.matrix, i, 0, zeroed, env) :
                       zeroed \in {memset(shards[i], 0, env.shard_size)}} : TRUE]]

\* rs_decode from the inverted submatrix on
DecodeRebuild(rs, shards, erasures, inv, env) ==
    IF inv.ret = 0
    THEN [ret |-> 0, shards |-> shards]
    ELSE [ret |-> 1,
          shards |->
             [i \in DOMAIN shards |->
                 IF i < rs.shards /\ erasures[i] = 1
                 THEN CHOOSE r \in
                        {DecodeRow(rs, shards, erasures, inv.matrix, i, 0, zeroed, env) :
                           zeroed \in {memset(shards[i], 0, env.shard_size)}} : TRUE
                 ELSE shards[i]]]

\* [ret |-> the value returned, shards |-> the shard buffers afterwards];
\* the callers pass erasure_count = the number of shards flagged 1, so that
\* valid_count reaches data_shards whenever the first check passes
rs_decode(rs, shards, erasures, erasure_count, shard_size, heap) ==
    LET data_shards == rs.data_shards
        total_shards == data_shards + rs.parity_shards
    IN IF total_shards - erasure_count < data_shards
       THEN [ret |-> 0, shards |-> shards]
       ELSE CHOOSE r \in
              {DecodeRebuild(rs, shards, erasures, inv,
                             [heap |-> heap, shard_size |-> shard_size]) :
                 inv \in {matrix_invert(submatrix, data_shards) :
                    submatrix \in
                      {[p \in 0..(data_shards * data_shards - 1) |->
                          rs.matrix[ValidShard(erasures, total_shards, p \div data_shards)
                                      * data_shards + (p % data_shards)]]}}} : TRUE

\* a call that inverts the rows it selected where they lie in rs->matrix
CoderAfter_in_place(rs, scratch) ==
    [rs EXCEPT !.matrix = [p \in DOMAIN rs.matrix |->
                              IF p \in DOMAIN scratch THEN scratch[p]
                              ELSE rs.matrix[p]]]

\* the coder after a call of rs_decode: the rows are copied into the malloc'd
\* submatrix, matrix_invert runs on that copy and the copy is freed
CoderAfter(rs, scratch) == rs

\* arr as a read of len bytes from its start sees it: the bytes past the
\* allocation come from the heap
Pad(arr, len, h) ==
    [p \in 0..(len - 1) |-> Rd(arr, p, h)]

\* input_matrix after the first loop of rs_generic_galois_coding: row i is
\* copied from rs->matrix when shard_ids[i] < data_shards and never written
\* otherwise (data_shards is the local of that name, = input_count)
GenericInputMatrix(rs, shard_ids, data_shards, h) ==
    [p \in 0..(data_shards * data_shards - 1) |->
        IF shard_ids[p \div data_shards] < data_shards
        THEN Rd(rs.matrix, shard_ids[p \div data_shards] * data_shards
                             + (p % data_shards), h)
        ELSE HeapByte(h, p)]

\* output_matrix: row i is copied from row data_shards + shard_ids[i] of rs->matrix
GenericOutputMatrix(rs, shard_ids, data_shards, output_count, h) ==
    [p \in 0..(output_count * data_shards - 1) |->
        Rd(rs.matrix, (data_shards + shard_ids[p \div data_shards]) * data_shards
                        + (p % data_shards), h)]

\* reconstruction_matrix: output_count * data_shards bytes of which
\* matrix_multiply(output_matrix, input_matrix, ., output_count) writes the
\* first output_count * output_count (output_count <= data_shards)
GenericReconstruction(output_matrix, input_matrix, data_shards, output_count, h) ==
    CHOOSE r \in
       {[p \in 0..(output_count * data_shards - 1) |->
            IF p < output_count * output_count THEN prod[p] ELSE HeapByte(h, p)] :
          prod \in {matrix_multiply(a, b, output_count) :
                      a \in {Pad(output_matrix, output_count * output_count, h)},
                      b \in {Pad(input_matrix, output_count * output_count, h)}}} : TRUE

\* the buffers after the body of the inner loop has run for (i, j); shards[i]
\* and shards[j] are the buffers at positions i and j of the caller's array
GenericTerm(bufs, i, j, coeff, first, shard_size) ==
    IF coeff = 0 THEN bufs
    ELSE [bufs EXCEPT ![i] =
            IF first
            THEN IF coeff = 1 THEN memcpy(bufs[i], bufs[j], shard_size)
                 ELSE mul1_avx2(bufs[i], bufs[j], coeff, shard_size)
            ELSE IF coeff = 1 THEN add1_avx2(bufs[i], bufs[j], shard_size)
                 ELSE mul_add1_avx2(bufs[i], bufs[j], coeff, shard_size)]

\* the buffers after the iterations from (t \div data_shards, t % data_shards)
\* on of the two reconstruction loops; g = [data_shards, output_count, shard_size]
RECURSIVE GenericApply(_, _, _, _, _)
GenericApply(bufs, recon, t, first, g) ==
    IF t >= g.output_count * g.data_shards THEN bufs
    ELSE LET coeff == recon[t]
             fst == first \/ (t % g.data_shards) = 0
         IN  CHOOSE r \in
               {GenericApply(nbufs, recon, t + 1, fst /\ coeff = 0, g) :
                  nbufs \in {GenericTerm(bufs, t \div g.data_shards, t % g.data_shards,
                                         coeff, fst, g.shard_size)}} : TRUE

\* [ret |-> the value returned, shards |-> the caller's buffers afterwards]
rs_generic_galois_coding(rs, shard_ids, input_count, output_count, shard_size, shards, h) ==
    CHOOSE r \in
       {IF inv.ret = 0 THEN [ret |-> 0, shards |-> shards]
        ELSE [ret |-> 1,
              shards |->
                 CHOOSE q \in
                    {GenericApply(shards, recon, 0, TRUE,
                                  [data_shards |-> input_count,
                                   output_count |-> output_count,
                                   shard_size |-> shard_size]) :
                       recon \in {GenericReconstruction(
                                     GenericOutputMatrix(rs, shard_ids, input_count,
                                                         output_count, h),
                                     inv.matrix, input_count, output_count, h)}} : TRUE] :
          inv \in {matrix_invert(input_matrix, input_count) :
                     input_matrix \in {GenericInputMatrix(rs, shard_ids, input_count, h)}}} : TRUE

(***************************************************************************)
(* spread and unspread of src/blockaio.c and src/blockaio.cpp.  A buffer   *)
(* is a function over 0..len-1; src, dest and offset[i] are byte offsets.  *)
(***************************************************************************)
\* one pass of "for (i = 0; i < k; i++)": 16 bytes from src to
\* dest[i] + offset[i]; st = [blocks, src, offset]
RECURSIVE spread_data_inner(_, _, _, _)
spread_data_inner(st, input, i, k) ==
    IF i >= k THEN st
    ELSE CHOOSE r \in
           {spread_data_inner(nst, input, i + 1, k) :
              nst \in {[blocks |-> [st.blocks EXCEPT ![i] =
                                      [b \in DOMAIN st.blocks[i] |->
                                          IF b >= st.offset[i] /\ b < st.offset[i] + 16
                                          THEN input[st.src + (b - st.offset[i])]
                                          ELSE st.blocks[i][b]]],
                        src |-> st.src + 16,
                        offset |-> [st.offset EXCEPT ![i] = st.offset[i] + 16]]}} : TRUE

\* "while (input_size >= 16 * k)"
RECURSIVE spread_data_while(_, _, _, _)
spread_data_while(st, input, input_size, k) ==
    IF input_size < 16 * k THEN st
    ELSE CHOOSE r \in
           {spread_data_while(nst, input, input_size - 16 * k, k) :
              nst \in {spread_data_inner(st, input, 0, k)}} : TRUE

\* the output blocks after spread_data (src/blockaio.c)
spread_data(input, output_blocks, input_size, k) ==
    spread_data_while([blocks |-> output_blocks, src |-> 0,
               offset |-> [i \in 0..(k - 1) |-> 0]], input, input_size, k).blocks

\* one pass of the inner loop: 16 bytes from src[i] + offset[i] to dest;
\* st = [output, dest, offset]
RECURSIVE unspread_data_inner(_, _, _, _)
unspread_data_inner(st, input_blocks, i, k) ==
    IF i >= k THEN st
    ELSE CHOOSE r \in
           {unspread_data_inner(nst, input_blocks, i + 1, k) :
              nst \in {[output |-> [b \in DOMAIN st.output |->
                                      IF b >= st.dest /\ b < st.dest + 16
                                      THEN input_blocks[i][st.offset[i] + (b - st.dest)]
                                      ELSE st.output[b]],
                        dest |-> st.dest + 16,
                        offset |-> [st.offset EXCEPT ![i] = st.offset[i] + 16]]}} : TRUE

\* "while (output_size >= 16 * k)"
RECURSIVE unspread_data_while(_, _, _, _)
unspread_data_while(st, input_blocks, output_size, k) ==
    IF output_size < 16 * k THEN st
    ELSE CHOOSE r \in
           {unspread_data_while(nst, input_blocks, output_size - 16 * k, k) :
              nst \in {unspread_data_inner(st, input_blocks, 0, k)}} : TRUE

\* unspread_data reading the blocks in the reverse order
unspread_data_reversed(input_blocks, output, output_size, k) ==
    unspread_data_while([output |-> output, dest |-> 0,
                         offset |-> [i \in 0..(k - 1) |-> 0]],
                        [i \in 0..(k - 1) |-> input_blocks[k - 1 - i]],
                        output_size, k).output

\* the output buffer after unspread_data (src/blockaio.c)
unspread_data(input_blocks, output, output_size, k) ==
    unspread_data_while([output |-> output, dest |-> 0,
               offset |-> [i \in 0..(k - 1) |-> 0]], input_blocks, output_size, k).output

\* one pass of "for (i = 0; i < k; i++)": 16 bytes from src to
\* dest[i] + offset[i]; st = [blocks, src, offset]
RECURSIVE spreadData_inner(_, _, _, _)
spreadData_inner(st, input, i, k) ==
    IF i >= k THEN st
    ELSE CHOOSE r \in
           {spreadData_inner(nst, input, i + 1, k) :
              nst \in {[blocks |-> [st.blocks EXCEPT ![i] =
                                      [b \in DOMAIN st.blocks[i] |->
                                          IF b >= st.offset[i] /\ b < st.offset[i] + 16
                                          THEN input[st.src + (b - st.offset[i])]
                                          ELSE st.blocks[i][b]]],
                        src |-> st.src + 16,
                        offset |-> [st.offset EXCEPT ![i] = st.offset[i] + 16]]}} : TRUE

\* "while (input_size >= 16 * k)"
RECURSIVE spreadData_while(_, _, _, _)
spreadData_while(st, input, input_size, k) ==
    IF input_size < 16 * k THEN st
    ELSE CHOOSE r \in
           {spreadData_while(nst, input, input_size - 16 * k, k) :
              nst \in {spreadData_inner(st, input, 0, k)}} : TRUE

\* the output blocks after spreadData (src/blockaio.cpp)
spreadData(input, output_blocks, input_size, k) ==
    spreadData_while([blocks |-> output_blocks, src |-> 0,
               offset |-> [i \in 0..(k - 1) |-> 0]], input, input_size, k).blocks

\* one pass of the inner loop: 16 bytes from src[i] + offset[i] to dest;
\* st = [output, dest, offset]
RECURSIVE unspreadData_inner(_, _, _, _)
unspreadData_inner(st, input_blocks, i, k) ==
    IF i >= k THEN st
    ELSE CHOOSE r \in
           {unspreadData_inner(nst, input_blocks, i + 1, k) :
              nst \in {[output |-> [b \in DOMAIN st.output |->
                                      IF b >= st.dest /\ b < st.dest + 16
                                      THEN input_blocks[i][st.offset[i] + (b - st.dest)]
                                      ELSE st.output[b]],
                        dest |-> st.dest + 16,
                        offset |-> [st.offset EXCEPT ![i] = st.offset[i] + 16]]}} : TRUE

\* "while (output_size >= 16 * k)"
RECURSIVE unspreadData_while(_, _, _, _)
unspreadData_while(st, input_blocks, output_size, k) ==
    IF output_size < 16 * k THEN st
    ELSE CHOOSE r \in
           {unspreadData_while(nst, input_blocks, output_size - 16 * k, k) :
              nst \in {unspreadData_inner(st, input_blocks, 0, k)}} : TRUE

\* the output buffer after unspreadData (src/blockaio.cpp)
unspreadData(input_blocks, output, output_size, k) ==
    unspreadData_while([output |-> output, dest |-> 0,
               offset |-> [i \in 0..(k - 1) |-> 0]], input_blocks, output_size, k).output

(***************************************************************************)
(* crc32c and the two validators of src/blockaio.cpp.  A struct is its     *)
(* object representation: a function from byte offsets to bytes, integers  *)
(* little-endian (x86-64), sizeof(HeaderBlock) = 80 with four bytes of     *)
(* tail padding after header_crc32c at offset 72, sizeof(Block) = 4096.    *)
(***************************************************************************)
\* a uint32_t is kept as its two 16-bit halves [lo, hi]
U32(lo, hi) == [lo |-> lo, hi |-> hi]

\* a ^ b on two uint32_t
Xor32(a, b) ==
    LET Xor16(x, y) == Xor(x % 256, y % 256) + 256 * Xor(x \div 256, y \div 256)
    IN  U32(Xor16(a.lo, b.lo), Xor16(a.hi, b.hi))

\* the CRC32C register after n more bit steps on v (reflected polynomial
\* 0x82F63B78), the step of the crc32 instruction
RECURSIVE Crc32cBits(_, _)
Crc32cBits(v, n) ==
    IF n = 0 THEN v
    ELSE Crc32cBits(
           IF v.lo % 2 = 1
           THEN Xor32(U32((v.lo \div 2) + 32768 * (v.hi % 2), v.hi \div 2),
                      U32(15224, 33526))
           ELSE U32((v.lo \div 2) + 32768 * (v.hi % 2), v.hi \div 2),
           n - 1)

Crc32cTable == [x \in 0..255 |-> Crc32cBits(U32(x, 0), 8)]

\* _mm_crc32_u8(crc, byte)
mm_crc32_u8(crc, byte) ==
    Xor32(Crc32cTable[Xor(crc.lo % 256, byte)],
          U32((crc.lo \div 256) + 256 * (crc.hi % 256), crc.hi \div 256))

\* the register after bytes data[lo..hi-1] in order; the 8-byte steps of
\* _mm_crc32_u64 are eight byte steps on a little-endian word
RECURSIVE Crc32cRun(_, _, _, _)
Crc32cRun(crc, data, lo, hi) ==
    IF hi <= lo THEN crc
    ELSE IF hi = lo + 1 THEN mm_crc32_u8(crc, data[lo])
    ELSE CHOOSE r \in
           {Crc32cRun(c1, data, (lo + hi) \div 2, hi) :
              c1 \in {Crc32cRun(crc, data, lo, (lo + hi) \div 2)}} : TRUE

\* crc32c(&data[start], length, previousCrc32)
crc32c(data, start, length, previousCrc32) ==
    LET Not32(a) == U32(65535 - a.lo, 65535 - a.hi)
    IN  Not32(Crc32cRun(Not32(previousCrc32), data, start, start + length))

\* the uint32_t stored at offset off
Load32(obj, off) ==
    U32(obj[off] + 256 * obj[off + 1], obj[off + 2] + 256 * obj[off + 3])

Store32(obj, off, v) ==
    [b \in DOMAIN obj |->
        IF b = off THEN v.lo % 256
        ELSE IF b = off + 1 THEN v.lo \div 256
        ELSE IF b = off + 2 THEN v.hi % 256
        ELSE IF b = off + 3 THEN v.hi \div 256
        ELSE obj[b]]

SizeofHeaderBlock == 80
OffsetVersionNumber == 32
OffsetVolumePrefixId == 36
OffsetShardIds == 64
OffsetHeaderCrc32c == 72
SizeofBlock == 4096

\* validateHeader; validate_header of blockaio.c is the same statements.
\* volume_prefix_id < (1 << 24) is: its upper half is below 256
validateHeader(header) ==
    IF Load32(header, OffsetVersionNumber) # U32(1, 0) THEN FALSE
    ELSE IF Load32(header, OffsetVolumePrefixId).hi < 256 THEN FALSE
    ELSE crc32c(header, 0, SizeofHeaderBlock - 4, U32(0, 0))
            = Load32(header, OffsetHeaderCrc32c)

\* the checksum taken without the last byte of the block
validateBlock_short(block) ==
    crc32c(block, 4, SizeofBlock - 5, U32(0, 0)) = Load32(block, 0)

\* validateBlock; validate_block of blockaio.c is the same statement
validateBlock(block) ==
    crc32c(block, 4, SizeofBlock - 4, U32(0, 0)) = Load32(block, 0)

\* get_k_blocks_in_stripe of blockaio.c: count goes down from 8 while the
\* two entries at its end are equal
get_k_blocks_in_stripe(header) ==
    LET RECURSIVE while(_)
        while(count) ==
            IF count > 1
               /\ header[OffsetShardIds + count - 2] = header[OffsetShardIds + count - 1]
            THEN while(count - 1)
            ELSE count
    IN  while(8)

\* getKBlocksInStripe of blockaio.cpp
getKBlocksInStripe(header) ==
    LET RECURSIVE while(_)
        while(count) ==
            IF count > 1
               /\ header[OffsetShardIds + count - 2] = header[OffsetShardIds + count - 1]
            THEN while(count - 1)
            ELSE count
    IN  while(8)

\* the largest int
INT_MAX == 2147483647

\* c * n for 0 <= c <= 32768 and an int n >= 0, as the integer it is: bits
\* 0..15 in lo, 16..31 in hi, the bits from 32 on in top
Wide(c, n) ==
    LET low == c * (n % 65536)
        high == (low \div 65536) + c * (n \div 65536)
    IN  [lo |-> low % 65536, hi |-> high % 65536, top |-> high \div 65536]

\* w + d for 0 <= d < 65536
WideAdd(w, d) ==
    LET low == w.lo + d
        high == w.hi + (low \div 65536)
    IN  [lo |-> low % 65536, hi |-> high % 65536, top |-> w.top + (high \div 65536)]

\* the int whose 32 bits are the low 32 bits of w: what an int multiplication
\* leaves in its register, and what the conversion of a size_t to int keeps
LowInt(w) ==
    IF w.hi < 32768 THEN w.hi * 65536 + w.lo
    ELSE (w.hi - 65536) * 65536 + w.lo

\* x + d, 0 <= d < 65536, in the 32 bits of an int
AddInt(x, d) ==
    IF x <= INT_MAX - d THEN x + d
    ELSE ((x - INT_MAX) + (d - 1)) - INT_MAX - 1

\* the int as a 64-bit integer: the conversion of an int to long long
SignExtend(x) ==
    IF x >= 0 THEN [lo |-> x % 65536, hi |-> x \div 65536, top |-> 0]
    ELSE [lo |-> (x + INT_MAX + 1) % 65536,
          hi |-> ((x + INT_MAX + 1) \div 65536) + 32768,
          top |-> -1]

\* computeOffsetToBlock of blockaio.cpp: the value returned, or returned =
\* FALSE when the for loop ends without a match and abort() is called.
\* offset is a size_t of which "return offset" keeps the low 32 bits: the
\* loop carries those; the product is an int multiplication
computeOffsetToBlock(header, stripe_number, shard_id) ==
    LET RECURSIVE for(_, _)
        for(offset, i) ==
            IF i >= 8 THEN [returned |-> FALSE, value |-> 0]
            ELSE IF header[OffsetShardIds + i] = shard_id
                 THEN [returned |-> TRUE, value |-> offset]
            ELSE for(AddInt(offset, 4096), i + 1)
    IN  for(LowInt(Wide(4096 * getKBlocksInStripe(header), stripe_number)), 0)

\* a loop that does not advance offset by a block per position passed
compute_offset_to_block_no_step(header, stripe_number, shard_id) ==
    LET RECURSIVE for(_, _)
        for(offset, i) ==
            IF i >= 8 THEN [returned |-> FALSE, value |-> 0]
            ELSE IF header[OffsetShardIds + i] = shard_id
                 THEN [returned |-> TRUE, value |-> offset]
            ELSE for(offset, i + 1)
    IN  for(LowInt(Wide(4096 * get_k_blocks_in_stripe(header), stripe_number)), 0)

\* the loop falling through to "return offset" when no entry matches
compute_offset_to_block_no_abort(header, stripe_number, shard_id) ==
    LET RECURSIVE for(_, _)
        for(offset, i) ==
            IF i >= 8 THEN [returned |-> TRUE, value |-> offset]
            ELSE IF header[OffsetShardIds + i] = shard_id
                 THEN [returned |-> TRUE, value |-> offset]
            ELSE for(AddInt(offset, 4096), i + 1)
    IN  for(LowInt(Wide(4096 * get_k_blocks_in_stripe(header), stripe_number)), 0)

\* compute_offset_to_block of blockaio.c
compute_offset_to_block(header, stripe_number, shard_id) ==
    LET RECURSIVE for(_, _)
        for(offset, i) ==
            IF i >= 8 THEN [returned |-> FALSE, value |-> 0]
            ELSE IF header[OffsetShardIds + i] = shard_id
                 THEN [returned |-> TRUE, value |-> offset]
            ELSE for(AddInt(offset, 4096), i + 1)
    IN  for(LowInt(Wide(4096 * get_k_blocks_in_stripe(header), stripe_number)), 0)

(***************************************************************************)
(* The asynchronous page I/O of blockaio.c and blockaio.cpp.  The world of *)
(* one io_context_t is a record:                                           *)
(*   process  "running", or how the process ended                          *)
(*   ctxs     the write_context objects by address: start_page, num_pages, *)
(*            whether the buffer is allocated, and whether the kernel      *)
(*            still works on the op ("inflight"), has completed it, or the *)
(*            object was freed                                             *)
(*   ring     the completion events the kernel has queued, oldest first:   *)
(*            data = the context's address, res = bytes moved or -errno    *)
(*   freed    per address, how often free() was called on the context and  *)
(*            on its buffer                                                *)
(*   heap_error  free() or a read through an address that is not live      *)
(*   last     what the last call did with the context it allocated         *)
(* malloc, posix_memalign, io_submit and io_getevents are the environment: *)
(* their outcomes are arguments.                                           *)
(***************************************************************************)
PAGE_SIZE == 4096

MAX_EVENTS == MaxBatch

NoAio ==
    [process |-> "running", ctxs |-> <<>>, ring |-> <<>>, freed |-> <<>>,
     heap_error |-> FALSE, last |-> [op |-> "none"], stopped |-> FALSE,
     enqueued_pages |-> 0, reaped_pages |-> 0]

\* the world after io_submit returned 1 for a new context
Enqueued(a, kind, start_page, num_pages) ==
    [a EXCEPT
       !.ctxs = Append(@, [start_page |-> start_page, num_pages |-> num_pages,
                           buffer |-> "allocated", state |-> "inflight"]),
       !.freed = Append(@, [ctx |-> 0, buffer |-> 0]),
       !.enqueued_pages = @ + num_pages,
       !.last = [op |-> kind, ctx |-> "allocated", buffer |-> "allocated",
                 enqueued |-> TRUE]]

\* a call that left no context behind: what became of the two allocations
NotEnqueued(a, kind, ctx, buffer) ==
    [a EXCEPT !.last = [op |-> kind, ctx |-> ctx, buffer |-> buffer,
                        enqueued |-> FALSE]]

\* submit_read / submitRead.  env.ctx: malloc or new succeeded; env.buffer:
\* posix_memalign returned 0; env.io_submit: the value of io_submit.
\* A failed malloc is a store through NULL (a fault), a failed new throws
\* std::bad_alloc, a failed assert calls abort(), a rejected submission
\* calls exit(1): the function returns only after a successful enqueue.
submit_read(a, impl, start_page, num_pages, env) ==
    IF ~env.ctx
    THEN [returned |-> FALSE, ret |-> 0,
          aio |-> [NotEnqueued(a, "read", "none", "none") EXCEPT
                     !.process = IF impl = "blockaio.c" THEN "segfault"
                                 ELSE "bad_alloc"]]
    ELSE IF ~env.buffer
    THEN [returned |-> FALSE, ret |-> 0,
          aio |-> [NotEnqueued(a, "read", "allocated", "none") EXCEPT
                     !.process = "aborted"]]
    ELSE IF env.io_submit # 1
    THEN [returned |-> FALSE, ret |-> 0,
          aio |-> [NotEnqueued(a, "read", "allocated", "allocated") EXCEPT
                     !.process = "exited"]]
    ELSE [returned |-> TRUE, ret |-> 0,
          aio |-> Enqueued(a, "read", start_page, num_pages)]

\* submit_write / submitWrite: blockaio.c returns -1 when malloc fails,
\* blockaio.cpp lets new throw
submit_write(a, impl, start_page, num_pages, env) ==
    IF ~env.ctx
    THEN IF impl = "blockaio.c"
         THEN [returned |-> TRUE, ret |-> -1,
               aio |-> NotEnqueued(a, "write", "none", "none")]
         ELSE [returned |-> FALSE, ret |-> 0,
               aio |-> [NotEnqueued(a, "write", "none", "none") EXCEPT
                          !.process = "bad_alloc"]]
    ELSE IF ~env.buffer
    THEN [returned |-> TRUE, ret |-> -1,
          aio |-> NotEnqueued(a, "write", "freed", "none")]
    ELSE IF env.io_submit # 1
    THEN [returned |-> TRUE, ret |-> env.io_submit,
          aio |-> NotEnqueued(a, "write", "freed", "freed")]
    ELSE [returned |-> TRUE, ret |-> 0,
          aio |-> Enqueued(a, "write", start_page, num_pages)]

\* the loop body of check_completed that frees the context and keeps the
\* buffer
ReapEvent_keep_buffer(a, event) ==
    LET ctx == event.data
    IN  IF a.ctxs[ctx].state = "freed"
        THEN [a EXCEPT !.heap_error = TRUE, !.freed[ctx].ctx = @ + 1]
        ELSE [a EXCEPT
                !.last.total_written = @ + a.ctxs[ctx].num_pages,
                !.freed[ctx].ctx = @ + 1,
                !.ctxs[ctx] = [start_page |-> 0, num_pages |-> 0,
                               buffer |-> a.ctxs[ctx].buffer, state |-> "freed"]]

\* the loop body of check_completed for one event: ctx = events[i].data;
\* total_written += ctx->num_pages; free(ctx->buffer); free(ctx).  A context
\* that is no longer live makes the read and both frees undefined.
ReapEvent(a, event) ==
    LET ctx == event.data
    IN  IF a.ctxs[ctx].state = "freed"
        THEN [a EXCEPT !.heap_error = TRUE, !.freed[ctx].ctx = @ + 1,
                       !.freed[ctx].buffer = @ + 1]
        ELSE [a EXCEPT
                !.last.total_written = @ + a.ctxs[ctx].num_pages,
                !.last.failed_pages =
                    @ + (IF event.res = PAGE_SIZE * a.ctxs[ctx].num_pages
                         THEN 0 ELSE a.ctxs[ctx].num_pages),
                !.freed[ctx].ctx = @ + 1,
                !.freed[ctx].buffer = @ + 1,
                !.ctxs[ctx] = [start_page |-> 0, num_pages |-> 0,
                               buffer |-> "freed", state |-> "freed"]]

\* check_completed with the loop ending one event early
check_completed_skips_last(a, completed) ==
    LET RECURSIVE for(_, _)
        for(w, i) == IF i >= completed - 1 THEN w
                     ELSE for(ReapEvent(w, a.ring[i + 1]), i + 1)
        polled == [a EXCEPT
                     !.ring = IF completed > 0
                              THEN SubSeq(@, completed + 1, Len(@)) ELSE @,
                     !.last = [op |-> "check_completed", completed |-> completed,
                               total_written |-> 0, failed_pages |-> 0]]
        done == for(polled, 0)
    IN  [returned |-> TRUE, ret |-> done.last.total_written,
         aio |-> [done EXCEPT !.reaped_pages = @ + done.last.total_written]]

\* check_completed / checkCompleted.  completed is the value of
\* io_getevents(io_ctx, 0, MAX_EVENTS, events, &timeout): the number of
\* events it took off the ring into events[], or -errno with none taken.
check_completed(a, completed) ==
    LET RECURSIVE for(_, _)
        for(w, i) == IF i >= completed THEN w
                     ELSE for(ReapEvent(w, a.ring[i + 1]), i + 1)
        polled == [a EXCEPT
                     !.ring = IF completed > 0
                              THEN SubSeq(@, completed + 1, Len(@)) ELSE @,
                     !.last = [op |-> "check_completed", completed |-> completed,
                               total_written |-> 0, failed_pages |-> 0]]
        done == for(polled, 0)
    IN  [returned |-> TRUE, ret |-> done.last.total_written,
         aio |-> [done EXCEPT !.reaped_pages = @ + done.last.total_written]]

(***************************************************************************)
(* State.                                                                  *)
(***************************************************************************)
VARIABLES
    pc,          \* the last operation the driver completed
    rs,          \* the coder rs_new returned, or NULL
    call,        \* the arguments of the last call
    shard_size,  \* bytes per shard buffer
    shards,      \* the K+M shard buffers, index -> bytes
    before,      \* the shard buffers as the last operation found them
    original,    \* the shard buffers right after rs_encode (the tests' copy)
    erasures,    \* the erasure flags handed to rs_decode
    ret,         \* the value the last int-returning call returned
    kern,        \* one run of a bulk kernel: its arguments and its dst after
    mat,         \* one run of matrix_invert on a submatrix of cauchy(N,K)
    tables,      \* the four field tables in memory while init_gf runs
    threads,     \* the threads calling init_gf: position and locals of each
    aio          \* the process, its per-op contexts and the kernel's AIO context

vars == <<pc, rs, call, shard_size, shards, before, original, erasures, ret,
          kern, mat, tables, threads, aio>>

NoCall == [op |-> "none"]

NoKern == [op |-> "idle"]

NoMat == [op |-> "idle"]

\* init_gf has returned and no thread is in it: the tables are the
\* definitions gf_exp, gf_log, gf_mul_table and gf_div_table
TablesReady == [op |-> "ready"]

NoThreads == <<>>

CoderIdle ==
    /\ pc = "start"
    /\ rs = NULL
    /\ call = NoCall
    /\ shard_size = 0
    /\ shards = <<>>
    /\ before = <<>>
    /\ original = <<>>
    /\ erasures = <<>>
    /\ ret = -1
    /\ tables = TablesReady
    /\ threads = NoThreads
    /\ aio = NoAio

(***************************************************************************)
(* rs_new on its own: SpecNew.                                             *)
(***************************************************************************)
\* pairs at and around the limit shards <= DATA_SHARDS_MAX
EdgePairs ==
    {<<1, DATA_SHARDS_MAX - 1>>, <<2, DATA_SHARDS_MAX - 3>>, <<2, DATA_SHARDS_MAX - 2>>,
     <<3, DATA_SHARDS_MAX - 4>>, <<1, DATA_SHARDS_MAX>>, <<DATA_SHARDS_MAX, 1>>}

NewPairs == ((-1..MaxNewK) \X (-1..MaxNewM)) \cup EdgePairs

RsNew(K, M) ==
    /\ pc = "start"
    /\ rs' = rs_new(K, M)
    /\ call' = [op |-> "rs_new", data_shards |-> K, parity_shards |-> M]
    /\ pc' = "new"
    /\ UNCHANGED <<shard_size, shards, before, original, erasures, ret, kern, mat, tables, threads, aio>>

NewAny == \E a \in NewPairs : RsNew(a[1], a[2])

InitNew == CoderIdle /\ kern = NoKern /\ mat = NoMat

NextNew == NewAny

SpecNew == InitNew /\ [][NextNew]_vars

(***************************************************************************)
(* The bulk kernels on their own: SpecKernel.                              *)
(***************************************************************************)
KernelCoeffs == {0, 1, 2, 29, 83, 255}

\* a buffer of len bytes, none of them the same function of its neighbours
Pattern(seed, len) == [i \in 0..(len - 1) |-> (seed * 67 + i * 37 + 11) % 256]

InitKernel ==
    /\ CoderIdle
    /\ mat = NoMat
    /\ \E c \in KernelCoeffs, sz \in 0..MaxKernelLen, seed \in 0..MaxSeed :
           kern = [op |-> "none", c |-> c, sz |-> sz,
                   src |-> Pattern(seed, sz),
                   dst0 |-> Pattern(seed + 3, sz),
                   dst |-> Pattern(seed + 3, sz)]

KernelFrame == UNCHANGED <<pc, rs, call, shard_size, shards, before, original,
                           erasures, ret, mat, tables, threads, aio>>

Mul1 ==
    /\ kern.op = "none"
    /\ kern' = [kern EXCEPT !.op = "mul1",
                            !.dst = mul1_avx2(kern.dst0, kern.src, kern.c, kern.sz)]
    /\ KernelFrame

MulAdd1 ==
    /\ kern.op = "none"
    /\ kern' = [kern EXCEPT !.op = "mul_add1",
                            !.dst = mul_add1_avx2(kern.dst0, kern.src, kern.c, kern.sz)]
    /\ KernelFrame

Add1 ==
    /\ kern.op = "none"
    /\ kern' = [kern EXCEPT !.op = "add1",
                            !.dst = add1_avx2(kern.dst0, kern.src, kern.sz)]
    /\ KernelFrame

NextKernel == Mul1 \/ MulAdd1 \/ Add1

SpecKernel == InitKernel /\ [][NextKernel]_vars

(***************************************************************************)
(* matrix_invert on the square submatrices of cauchy(N,K): SpecCauchy.     *)
(***************************************************************************)
\* submatrix[i * size + j] = matrix[row_indices[i] * cols + col_indices[j]],
\* the indices being the members of the two sets in increasing order
Nth(S, k) == CHOOSE x \in S : Cardinality({y \in S : y < x}) = k

create_submatrix(matrix, cols, row_set, col_set, size) ==
    [p \in 0..(size * size - 1) |->
        matrix[Nth(row_set, p \div size) * cols + Nth(col_set, p % size)]]

\* the rows submatrices are drawn from: all of them for a small N, the first
\* and last two for an N at the limit
RowWindow(N) == IF N <= MaxCauchyRows + 1 THEN 0..(N - 1) ELSE {0, 1, N - 2, N - 1}

CauchyRows == (1..MaxCauchyRows) \cup {DATA_SHARDS_MAX - MaxCauchyCols}

InitCauchy ==
    /\ CoderIdle
    /\ kern = NoKern
    /\ \E N \in CauchyRows, K \in 1..MaxCauchyCols :
         \E R \in SUBSET RowWindow(N), C \in SUBSET (0..(K - 1)) :
           /\ R # {}
           /\ Cardinality(R) = Cardinality(C)
           /\ mat = [op |-> "made", N |-> N, K |-> K, rows |-> R, cols |-> C,
                     n |-> Cardinality(R),
                     sub |-> create_submatrix(cauchy(N, K), K, R, C, Cardinality(R))]

Invert ==
    /\ mat.op = "made"
    /\ LET r == matrix_invert(mat.sub, mat.n)
       IN mat' = [op |-> "inverted", N |-> mat.N, K |-> mat.K, rows |-> mat.rows,
                  cols |-> mat.cols, n |-> mat.n, sub |-> mat.sub,
                  ret |-> r.ret, out |-> r.matrix]
    /\ UNCHANGED <<pc, rs, call, shard_size, shards, before, original, erasures,
                   ret, kern, tables, threads, aio>>

NextCauchy == Invert

SpecCauchy == InitCauchy /\ [][NextCauchy]_vars

(***************************************************************************)
(* The coder driven as src/test-rs.c drives it: Spec.                      *)
(*   rs_new; fill the data shards; rs_encode(rs, shards, &shards[K]);      *)
(*   overwrite some shards and flag them; rs_decode.                       *)
(***************************************************************************)
\* the coder and the shard size of test_rs_encode and test_rs_decode
TestDataShards == 4

TestParityShards == 2

TestShardSize == 4

\* the bytes one iteration of the kernels' vector loop handles
ChunkBytes == 64

\* the tests' size, which the scalar tail handles alone, and one whole chunk
\* (SpecKernel runs the kernels on every length up to MaxKernelLen)
ShardSizes == {TestShardSize, ChunkBytes}

\* byte b of data shard j: pattern 0 is the tests' i * shard_size + j
DataByte(seed, j, b, sz) ==
    IF seed = 0 THEN (j * sz + b) % 256
    ELSE (seed * 101 + j * 59 + b * 37 + 13) % 256

\* what the parity buffers hold before rs_encode writes them
Prefill == {0, 165}

\* what an erased shard is overwritten with: the tests memset it to 0
Overwrite == {0}

\* the heap images a call of rs_decode can meet: it reads outside submatrix
\* only when a parity shard is flagged, and nothing else depends on the heap
DecodeHeaps ==
    IF \E i \in DOMAIN erasures : i >= rs.data_shards /\ erasures[i] = 1
    THEN 0..MaxHeap
    ELSE {0}

Erased == {i \in DOMAIN erasures : erasures[i] = 1}

NewSmall ==
    \E K \in 1..MaxK, M \in 1..MaxM : RsNew(K, M)

FillSized(Sizes) ==
    /\ pc = "new"
    /\ rs # NULL
    /\ \E sz \in Sizes, seed \in 0..MaxSeed, pre \in Prefill :
          /\ shard_size' = sz
          /\ shards' = [i \in 0..(rs.shards - 1) |->
                          [b \in 0..(sz - 1) |->
                              IF i < rs.data_shards THEN DataByte(seed, i, b, sz)
                              ELSE pre]]
          /\ call' = [op |-> "fill", seed |-> seed]
    /\ pc' = "filled"
    /\ UNCHANGED <<rs, before, original, erasures, ret, kern, mat, tables, threads, aio>>

Encode ==
    /\ pc = "filled"
    /\ \E data \in {[j \in 0..(rs.data_shards - 1) |-> shards[j]]},
          parity \in {[i \in 0..(rs.parity_shards - 1) |-> shards[rs.data_shards + i]]} :
          \E out \in {rs_encode(rs, data, parity, shard_size)} :
             /\ shards' = [i \in DOMAIN shards |->
                             IF i < rs.data_shards THEN shards[i]
                             ELSE out[i - rs.data_shards]]
             /\ original' = [i \in DOMAIN shards |->
                               IF i < rs.data_shards THEN shards[i]
                               ELSE out[i - rs.data_shards]]
    /\ before' = shards
    /\ call' = [op |-> "rs_encode"]
    /\ pc' = "encoded"
    /\ UNCHANGED <<rs, shard_size, erasures, ret, kern, mat, tables, threads, aio>>

Fill == FillSized(ShardSizes)

EraseUpTo(most) ==
    /\ pc = "encoded"
    /\ \E E \in SUBSET DOMAIN shards, v \in Overwrite :
          /\ Cardinality(E) <= most
          /\ erasures' = [i \in DOMAIN shards |-> IF i \in E THEN 1 ELSE 0]
          /\ shards' = [i \in DOMAIN shards |->
                          IF i \in E THEN memset(shards[i], v, shard_size)
                          ELSE shards[i]]
    /\ call' = [op |-> "erase"]
    /\ pc' = "erased"
    /\ UNCHANGED <<rs, shard_size, before, original, ret, kern, mat, tables, threads, aio>>

\* up to one shard more than rs_decode can rebuild
Erase == EraseUpTo(rs.parity_shards + 1)

Decode ==
    /\ pc = "erased"
    /\ \E h \in DecodeHeaps :
          \E r \in {rs_decode(rs, shards, erasures, Cardinality(Erased), shard_size, h)} :
             /\ shards' = r.shards
             /\ ret' = r.ret
    /\ before' = shards
    /\ call' = [op |-> "rs_decode"]
    /\ pc' = "decoded"
    /\ UNCHANGED <<rs, shard_size, original, erasures, kern, mat, tables, threads, aio>>

Init == CoderIdle /\ kern = NoKern /\ mat = NoMat

Next == NewSmall \/ Fill \/ Encode \/ Erase \/ Decode

Spec == Init /\ [][Next]_vars

(***************************************************************************)
(* rs_generic_galois_coding in place of rs_decode: SpecGeneric.  The caller *)
(* lists K surviving shards as inputs, then the zeroed shards as outputs.   *)
(* With every parity shard zeroed and the data shards as inputs the call    *)
(* is the encode of the generic routine.                                    *)
(***************************************************************************)
\* the elements of a set of integers in increasing order
Ascending(S) == [p \in 0..(Cardinality(S) - 1) |-> Nth(S, p)]

Concat(f, g, nf, ng) ==
    [p \in 0..(nf + ng - 1) |-> IF p < nf THEN f[p] ELSE g[p - nf]]

\* the inputs a caller can list: any K of the shards not zeroed
InputChoices ==
    {S \in SUBSET (DOMAIN shards \ Erased) : Cardinality(S) = rs.data_shards}

Generic ==
    /\ pc = "erased"
    /\ Erased # {}
    /\ Cardinality(Erased) <= rs.parity_shards
    /\ Cardinality(Erased) <= rs.data_shards
    /\ \E S \in InputChoices, h \in 0..MaxHeap :
          \E shard_ids \in {Concat(Ascending(S), Ascending(Erased),
                                   rs.data_shards, Cardinality(Erased))} :
             \E r \in {rs_generic_galois_coding(
                          rs, shard_ids, rs.data_shards, Cardinality(Erased),
                          shard_size,
                          [p \in DOMAIN shard_ids |-> shards[shard_ids[p]]], h)} :
                /\ shards' = [i \in DOMAIN shards |->
                                IF \E p \in DOMAIN shard_ids : shard_ids[p] = i
                                THEN r.shards[CHOOSE p \in DOMAIN shard_ids :
                                                 shard_ids[p] = i]
                                ELSE shards[i]]
                /\ ret' = r.ret
                /\ call' = [op |-> "rs_generic_galois_coding",
                            shard_ids |-> shard_ids,
                            input_count |-> rs.data_shards,
                            output_count |-> Cardinality(Erased)]
    /\ before' = shards
    /\ pc' = "coded"
    /\ UNCHANGED <<rs, shard_size, original, erasures, kern, mat, tables, threads, aio>>

\* the caller lists its first input, a data shard, twice: the rows of G the
\* inputs select are linearly dependent
GenericRepeated ==
    /\ pc = "erased"
    /\ Erased # {}
    /\ Cardinality(Erased) <= rs.parity_shards
    /\ Cardinality(Erased) <= rs.data_shards
    /\ rs.data_shards >= 2
    /\ \E S \in InputChoices, h \in 0..MaxHeap :
          /\ Nth(S, 0) < rs.data_shards
          /\ \E shard_ids \in {Concat([p \in 0..(rs.data_shards - 1) |->
                                        IF p = 1 THEN Nth(S, 0) ELSE Nth(S, p)],
                                     Ascending(Erased),
                                     rs.data_shards, Cardinality(Erased))} :
               \E r \in {rs_generic_galois_coding(
                            rs, shard_ids, rs.data_shards, Cardinality(Erased),
                            shard_size,
                            [p \in DOMAIN shard_ids |-> shards[shard_ids[p]]], h)} :
                  \* a call that returns 0 has written nothing; a 1 is not modelled
                  /\ r.ret = 0
                  /\ shards' = shards
                  /\ ret' = r.ret
                  /\ call' = [op |-> "rs_generic_galois_coding",
                              shard_ids |-> shard_ids,
                              input_count |-> rs.data_shards,
                              output_count |-> Cardinality(Erased)]
    /\ before' = shards
    /\ pc' = "coded"
    /\ UNCHANGED <<rs, shard_size, original, erasures, kern, mat, tables, threads, aio>>

EraseGeneric == EraseUpTo(rs.parity_shards)

NextGeneric == NewSmall \/ Fill \/ Encode \/ EraseGeneric \/ Generic \/ GenericRepeated

SpecGeneric == Init /\ [][NextGeneric]_vars

(***************************************************************************)
(* test_rs_decode: SpecTest.  rs_new(4, 2), shard_size 4, any 0, 1 or 2    *)
(* shards zeroed and flagged.                                              *)
(***************************************************************************)
NewTest == RsNew(TestDataShards, TestParityShards)

FillTest == FillSized({TestShardSize})

EraseTest == EraseUpTo(TestParityShards)

NextTest == NewTest \/ FillTest \/ Encode \/ EraseTest \/ Decode

SpecTest == Init /\ [][NextTest]_vars

(***************************************************************************)
(* The field operations called one at a time, as                           *)
(* test_gf_mul_div_property calls them: SpecGf.  pc = "exit" stands for    *)
(* the process having been ended by exit(1).                               *)
(***************************************************************************)
Bytes == 0..(GF_SIZE - 1)

\* what a call of the public gf_div does: a table lookup, whatever b is
gf_div_call(a, b) == [exit |-> FALSE, value |-> gf_div(a, b)]

GfMul ==
    /\ pc = "start"
    /\ \E a \in Bytes, b \in Bytes :
          /\ call' = [op |-> "gf_mul", a |-> a, b |-> b]
          /\ ret' = gf_mul(a, b)
    /\ pc' = "gf"
    /\ UNCHANGED <<rs, shard_size, shards, before, original, erasures, kern, mat, tables, threads, aio>>

GfDiv ==
    /\ pc = "start"
    /\ \E a \in Bytes, b \in Bytes :
          \E r \in {gf_div_call(a, b)} :
             /\ call' = [op |-> "gf_div", a |-> a, b |-> b]
             /\ ret' = IF r.exit THEN ret ELSE r.value
             /\ pc' = IF r.exit THEN "exit" ELSE "gf"
    /\ UNCHANGED <<rs, shard_size, shards, before, original, erasures, kern, mat, tables, threads, aio>>

\* gf_div(gf_mul(i, j), j), the expression of the test
GfDivOfMul ==
    /\ pc = "gf"
    /\ call.op = "gf_mul"
    /\ call.b # 0
    /\ \E r \in {gf_div_call(ret, call.b)} :
          /\ ret' = IF r.exit THEN ret ELSE r.value
          /\ pc' = IF r.exit THEN "exit" ELSE "gf"
    /\ call' = [op |-> "gf_div(gf_mul)", a |-> call.a, b |-> call.b]
    /\ UNCHANGED <<rs, shard_size, shards, before, original, erasures, kern, mat, tables, threads, aio>>

\* gf_mul(gf_div(i, j), j)
GfMulOfDiv ==
    /\ pc = "gf"
    /\ call.op = "gf_div"
    /\ call.b # 0
    /\ ret' = gf_mul(ret, call.b)
    /\ call' = [op |-> "gf_mul(gf_div)", a |-> call.a, b |-> call.b]
    /\ pc' = "gf"
    /\ UNCHANGED <<rs, shard_size, shards, before, original, erasures, kern, mat, tables, threads, aio>>

NextGf == GfMul \/ GfDiv \/ GfDivOfMul \/ GfMulOfDiv

SpecGf == Init /\ [][NextGf]_vars

(***************************************************************************)
(* init_gf called from two threads, one statement at a time: SpecInit.     *)
(* The statements are those of src/rs.c with GF_SIZE replaced by           *)
(* InitSize = 2^MaxInitBits and 0x1d by the reduction byte of a primitive  *)
(* polynomial of that degree, so that every interleaving can be explored.  *)
(* The tables are globals, zero before the first call.                     *)
(***************************************************************************)
InitSize == 2 ^ MaxInitBits

\* x^n + x + 1 is primitive for n = 2, 3, 4; the source's field has 0x1d
InitPoly == IF MaxInitBits = 8 THEN 29 ELSE 3

InitThreads == {1, 2}

\* x = (x << 1) ^ ((x & 0x80) ? 0x1d : 0); x &= 0xFF
InitExpStep(x) ==
    XorBits(2 * x, IF (x \div (InitSize \div 2)) % 2 = 1 THEN InitPoly ELSE 0) % InitSize

ZeroTables ==
    [gf_exp |-> [i \in 0..(InitSize * 2 - 1) |-> 0],
     gf_log |-> [i \in 0..(InitSize - 1) |-> 0],
     gf_mul_table |-> [i \in 0..(InitSize * InitSize - 1) |-> 0],
     gf_div_table |-> [i \in 0..(InitSize * InitSize - 1) |-> 0]]

\* gf_mul_direct and gf_div_direct reading the tables t as they stand
InitMulDirect(t, a, b) ==
    IF a = 0 \/ b = 0 THEN 0
    ELSE t.gf_exp[(t.gf_log[a] + t.gf_log[b]) % (InitSize - 1)]

InitDivDirect(t, a, b) ==
    IF a = 0 THEN 0
    ELSE t.gf_exp[(t.gf_log[a] - t.gf_log[b] + (InitSize - 1)) % (InitSize - 1)]

IdleThread == [pc |-> "idle", i |-> 0, j |-> 0, x |-> 0, tmp |-> 0, returned |-> FALSE]

\* the thread after the body of the table loop has run for (i, j)
InitNextEntry(th) ==
    IF th.j + 1 < InitSize THEN [th EXCEPT !.pc = "mul_call", !.j = th.j + 1]
    ELSE IF th.i + 1 < InitSize THEN [th EXCEPT !.pc = "mul_call", !.i = th.i + 1, !.j = 0]
    ELSE [th EXCEPT !.pc = "idle", !.returned = TRUE]

\* init_gf clearing gf_log on entry before it fills the tables
InitGfStep_clearing(t, th) ==
    IF th.pc = "idle"                        \* int i, x = 1; i = 0
    THEN [tables |-> [t EXCEPT !.gf_log = [i \in 0..(InitSize - 1) |-> 0]],
          thread |-> [th EXCEPT !.pc = "exp", !.i = 0, !.j = 0, !.x = 1, !.tmp = 0]]
    ELSE IF th.pc = "exp"                    \* gf_exp[i] = x
    THEN [tables |-> [t EXCEPT !.gf_exp[th.i] = th.x],
          thread |-> [th EXCEPT !.pc = "log"]]
    ELSE IF th.pc = "log"                    \* gf_log[x] = i; x = ...; i++
    THEN [tables |-> [t EXCEPT !.gf_log[th.x] = th.i],
          thread |-> [th EXCEPT !.x = InitExpStep(th.x),
                                !.i = th.i + 1,
                                !.pc = IF th.i + 1 < InitSize - 1 THEN "exp"
                                       ELSE "exp_last"]]
    ELSE IF th.pc = "exp_last"               \* gf_exp[GF_SIZE - 1] = 1
    THEN [tables |-> [t EXCEPT !.gf_exp[InitSize - 1] = 1],
          thread |-> [th EXCEPT !.pc = "log_zero"]]
    ELSE IF th.pc = "log_zero"               \* gf_log[0] = -1
    THEN [tables |-> [t EXCEPT !.gf_log[0] = -1],
          thread |-> [th EXCEPT !.pc = "copy", !.i = InitSize]]
    ELSE IF th.pc = "copy"                   \* gf_exp[i] = gf_exp[i - (GF_SIZE - 1)]
    THEN [tables |-> [t EXCEPT !.gf_exp[th.i] = t.gf_exp[th.i - (InitSize - 1)]],
          thread |-> IF th.i + 1 < InitSize * 2
                     THEN [th EXCEPT !.i = th.i + 1]
                     ELSE [th EXCEPT !.pc = "mul_call", !.i = 0, !.j = 0]]
    ELSE IF th.pc = "mul_call"               \* gf_mul_direct(i, j)
    THEN [tables |-> t,
          thread |-> [th EXCEPT !.tmp = InitMulDirect(t, th.i, th.j),
                                !.pc = "mul_store"]]
    ELSE IF th.pc = "mul_store"              \* gf_mul_table[i * GF_SIZE + j] = ...
    THEN [tables |-> [t EXCEPT !.gf_mul_table[th.i * InitSize + th.j] = th.tmp],
          thread |-> IF th.j # 0 THEN [th EXCEPT !.pc = "div_call"]
                     ELSE InitNextEntry(th)]
    ELSE IF th.pc = "div_call"               \* gf_div_direct(i, j), j != 0
    THEN [tables |-> t,
          thread |-> [th EXCEPT !.tmp = InitDivDirect(t, th.i, th.j),
                                !.pc = "div_store"]]
    ELSE                                     \* gf_div_table[i * GF_SIZE + j] = ...
         [tables |-> [t EXCEPT !.gf_div_table[th.i * InitSize + th.j] = th.tmp],
          thread |-> InitNextEntry(th)]

\* one statement of init_gf run by a thread at th on the tables t
InitGfStep(t, th) ==
    IF th.pc = "idle"                        \* int i, x = 1; i = 0
    THEN [tables |-> t,
          thread |-> [th EXCEPT !.pc = "exp", !.i = 0, !.j = 0, !.x = 1, !.tmp = 0]]
    ELSE IF th.pc = "exp"                    \* gf_exp[i] = x
    THEN [tables |-> [t EXCEPT !.gf_exp[th.i] = th.x],
          thread |-> [th EXCEPT !.pc = "log"]]
    ELSE IF th.pc = "log"                    \* gf_log[x] = i; x = ...; i++
    THEN [tables |-> [t EXCEPT !.gf_log[th.x] = th.i],
          thread |-> [th EXCEPT !.x = InitExpStep(th.x),
                                !.i = th.i + 1,
                                !.pc = IF th.i + 1 < InitSize - 1 THEN "exp"
                                       ELSE "exp_last"]]
    ELSE IF th.pc = "exp_last"               \* gf_exp[GF_SIZE - 1] = 1
    THEN [tables |-> [t EXCEPT !.gf_exp[InitSize - 1] = 1],
          thread |-> [th EXCEPT !.pc = "log_zero"]]
    ELSE IF th.pc = "log_zero"               \* gf_log[0] = -1
    THEN [tables |-> [t EXCEPT !.gf_log[0] = -1],
          thread |-> [th EXCEPT !.pc = "copy", !.i = InitSize]]
    ELSE IF th.pc = "copy"                   \* gf_exp[i] = gf_exp[i - (GF_SIZE - 1)]
    THEN [tables |-> [t EXCEPT !.gf_exp[th.i] = t.gf_exp[th.i - (InitSize - 1)]],
          thread |-> IF th.i + 1 < InitSize * 2
                     THEN [th EXCEPT !.i = th.i + 1]
                     ELSE [th EXCEPT !.pc = "mul_call", !.i = 0, !.j = 0]]
    ELSE IF th.pc = "mul_call"               \* gf_mul_direct(i, j)
    THEN [tables |-> t,
          thread |-> [th EXCEPT !.tmp = InitMulDirect(t, th.i, th.j),
                                !.pc = "mul_store"]]
    ELSE IF th.pc = "mul_store"              \* gf_mul_table[i * GF_SIZE + j] = ...
    THEN [tables |-> [t EXCEPT !.gf_mul_table[th.i * InitSize + th.j] = th.tmp],
          thread |-> IF th.j # 0 THEN [th EXCEPT !.pc = "div_call"]
                     ELSE InitNextEntry(th)]
    ELSE IF th.pc = "div_call"               \* gf_div_direct(i, j), j != 0
    THEN [tables |-> t,
          thread |-> [th EXCEPT !.tmp = InitDivDirect(t, th.i, th.j),
                                !.pc = "div_store"]]
    ELSE                                     \* gf_div_table[i * GF_SIZE + j] = ...
         [tables |-> [t EXCEPT !.gf_div_table[th.i * InitSize + th.j] = th.tmp],
          thread |-> InitNextEntry(th)]

InitGfStatement ==
    /\ pc = "init"
    /\ \E id \in InitThreads :
          \E r \in {InitGfStep(tables, threads[id])} :
             /\ tables' = r.tables
             /\ threads' = [threads EXCEPT ![id] = r.thread]
    /\ UNCHANGED <<pc, rs, call, shard_size, shards, before, original, erasures,
                   ret, kern, mat, aio>>

InitInit ==
    /\ pc = "init"
    /\ rs = NULL
    /\ call = NoCall
    /\ shard_size = 0
    /\ shards = <<>>
    /\ before = <<>>
    /\ original = <<>>
    /\ erasures = <<>>
    /\ ret = -1
    /\ kern = NoKern
    /\ mat = NoMat
    /\ tables = ZeroTables
    /\ threads = [id \in InitThreads |-> IdleThread]
    /\ aio = NoAio

NextInit == InitGfStatement

SpecInit == InitInit /\ [][NextInit]_vars

\* the tables of the field of InitSize elements: powers of 2, their
\* logarithms, products and quotients
RECURSIVE InitPower(_)
InitPower(n) == IF n = 0 THEN 1 ELSE InitExpStep(InitPower(n - 1))

InitLog(v) == CHOOSE n \in 0..(InitSize - 2) : InitPower(n) = v

FieldTables ==
    [gf_exp |-> [i \in 0..(InitSize * 2 - 1) |-> InitPower(i % (InitSize - 1))],
     gf_log |-> [v \in 0..(InitSize - 1) |-> IF v = 0 THEN -1 ELSE InitLog(v)],
     gf_mul_table |-> [p \in 0..(InitSize * InitSize - 1) |->
        IF (p \div InitSize) = 0 \/ (p % InitSize) = 0 THEN 0
        ELSE InitPower((InitLog(p \div InitSize) + InitLog(p % InitSize))
                          % (InitSize - 1))],
     gf_div_table |-> [p \in 0..(InitSize * InitSize - 1) |->
        IF (p \div InitSize) = 0 \/ (p % InitSize) = 0 THEN 0
        ELSE InitPower((InitLog(p \div InitSize) - InitLog(p % InitSize)
                          + (InitSize - 1)) % (InitSize - 1))]]

(***************************************************************************)
(* spread then unspread, as the test SpreadAndUnspreadData drives them,    *)
(* through the functions of blockaio.c and of blockaio.cpp: SpecSpread.    *)
(***************************************************************************)
\* seed 0 is the test's input[i] = (char) i
SpreadInput(seed, len) ==
    [i \in 0..(len - 1) |-> (i * (2 * seed + 1) + 7 * seed) % 256]

SpreadImpls == {"blockaio.c", "blockaio.cpp"}

Spread ==
    /\ pc = "start"
    /\ \E impl \in SpreadImpls, k \in 1..MaxSpreadK, q \in 0..MaxSpreadRounds,
          seed \in 0..MaxSeed, pre \in Prefill :
          \E input \in {SpreadInput(seed, 16 * k * q)},
             blocks \in {[i \in 0..(k - 1) |-> [b \in 0..(16 * q - 1) |-> pre]]} :
             /\ shards' = IF impl = "blockaio.c"
                          THEN spread_data(input, blocks, 16 * k * q, k)
                          ELSE spreadData(input, blocks, 16 * k * q, k)
             /\ before' = blocks
             /\ call' = [op |-> "spread", impl |-> impl, k |-> k,
                         input_size |-> 16 * k * q, input |-> input,
                         output |-> <<>>]
    /\ pc' = "spread"
    /\ UNCHANGED <<rs, shard_size, original, erasures, ret, kern, mat, tables, threads, aio>>

Unspread ==
    /\ pc = "spread"
    /\ \E pre \in Prefill :
          \E result \in {[i \in 0..(call.input_size - 1) |-> pre]} :
             call' = [call EXCEPT
                        !.op = "unspread",
                        !.output = IF call.impl = "blockaio.c"
                                   THEN unspread_data(shards, result, call.input_size, call.k)
                                   ELSE unspreadData(shards, result, call.input_size, call.k)]
    /\ pc' = "unspread"
    /\ UNCHANGED <<rs, shard_size, shards, before, original, erasures, ret, kern,
                   mat, tables, threads, aio>>

NextSpread == Spread \/ Unspread

SpecSpread == Init /\ [][NextSpread]_vars

(***************************************************************************)
(* Stamp and validate, as the tests ValidateHeader and ValidateBlock drive *)
(* them: SpecChecksum.  The object is zeroed or filled from a seed, its    *)
(* checksum field is written with the crc32c the test computes, and the    *)
(* validator is called; a block may have one byte changed in between.      *)
(***************************************************************************)
\* memset(&x, 0, n) for seed 0, other contents for other seeds
FilledObject(seed, n) == [b \in 0..(n - 1) |-> (seed * (b + 3)) % 256]

\* offsets of the sequence number, the stripe number with the shard id in
\* its lowest byte, and payload bytes spread over the block
BlockPositions ==
    {4, 7, 8, 15, 16, SizeofBlock - 1}
        \cup {16 + ((SizeofBlock - 16) * i) \div MaxBlockPositions :
                 i \in 1..(MaxBlockPositions - 1)}

\* old ^ delta is the new value of the changed byte
MutateDeltas == {1, 128, 255}

StampHeader ==
    /\ pc = "start"
    /\ \E seed \in 0..MaxSeed, prefix_hi \in {256, 65535} :
          \E h \in {Store32(Store32(FilledObject(seed, SizeofHeaderBlock),
                                    OffsetVersionNumber, U32(1, 0)),
                            OffsetVolumePrefixId, U32(seed, prefix_hi))} :
             /\ before' = h
             /\ shards' = Store32(h, OffsetHeaderCrc32c,
                                  crc32c(h, 0, SizeofHeaderBlock - 4, U32(0, 0)))
    /\ call' = [op |-> "header", mutated |-> FALSE]
    /\ pc' = "stamped"
    /\ UNCHANGED <<rs, shard_size, original, erasures, ret, kern, mat, tables, threads, aio>>

ValidateHeader ==
    /\ pc = "stamped"
    /\ call.op = "header"
    /\ ret' = validateHeader(shards)
    /\ pc' = "validated"
    /\ UNCHANGED <<rs, call, shard_size, shards, before, original, erasures, kern,
                   mat, tables, threads, aio>>

StampBlock ==
    /\ pc = "start"
    /\ \E seed \in 0..MaxSeed :
          \E blk \in {FilledObject(seed, SizeofBlock)} :
             \E stamped \in {Store32(blk, 0,
                                     crc32c(blk, 4, SizeofBlock - 4, U32(0, 0)))} :
                shards' = stamped /\ before' = stamped
    /\ call' = [op |-> "block", mutated |-> FALSE]
    /\ pc' = "stamped"
    /\ UNCHANGED <<rs, shard_size, original, erasures, ret, kern, mat, tables, threads, aio>>

MutateBlock ==
    /\ pc = "stamped"
    /\ call.op = "block"
    /\ \E pos \in BlockPositions, delta \in MutateDeltas :
          shards' = [shards EXCEPT ![pos] = Xor(@, delta)]
    /\ call' = [call EXCEPT !.mutated = TRUE]
    /\ pc' = "mutated"
    /\ UNCHANGED <<rs, shard_size, before, original, erasures, ret, kern, mat,
                   tables, threads, aio>>

ValidateBlock ==
    /\ pc \in {"stamped", "mutated"}
    /\ call.op = "block"
    /\ ret' = validateBlock(shards)
    /\ pc' = "validated"
    /\ UNCHANGED <<rs, call, shard_size, shards, before, original, erasures, kern,
                   mat, tables, threads, aio>>

NextChecksum ==
    StampHeader \/ ValidateHeader \/ StampBlock \/ MutateBlock \/ ValidateBlock

SpecChecksum == Init /\ [][NextChecksum]_vars

(***************************************************************************)
(* Counting the shards of a header and locating a block: SpecStripe.  A    *)
(* header is either sorted (blockaio.hpp: "for less than 8 shards, the     *)
(* last shard is repeated.  shards are sorted") or built as the tests      *)
(* GetKBlocksInStripe and ComputeOffsetToBlock build it: zero-filled, then *)
(* the first k entries set to consecutive ids.                             *)
(***************************************************************************)
\* a zeroed header with the given shard_ids (a function on 0..7)
HeaderWith(ids) ==
    [b \in 0..(SizeofHeaderBlock - 1) |->
        IF b >= OffsetShardIds /\ b < OffsetShardIds + 8
        THEN ids[b - OffsetShardIds] ELSE 0]

SortedHeader ==
    /\ pc = "start"
    /\ \E ids \in [0..7 -> 0..MaxShardId] :
          /\ \A i \in 0..6 : ids[i] <= ids[i + 1]
          /\ shards' = HeaderWith(ids)
    /\ call' = [op |-> "sorted", k |-> 0, stripe_number |-> 0, p |-> 0]
    /\ pc' = "header"
    /\ UNCHANGED <<rs, shard_size, before, original, erasures, ret, kern, mat,
                   tables, threads, aio>>

TestHeader ==
    /\ pc = "start"
    /\ \E k \in 1..8, first \in 1..MaxShardId :
          /\ shards' = HeaderWith([i \in 0..7 |-> IF i < k THEN first + i ELSE 0])
          /\ call' = [op |-> "test", k |-> k, stripe_number |-> 0, p |-> 0]
    /\ pc' = "header"
    /\ UNCHANGED <<rs, shard_size, before, original, erasures, ret, kern, mat,
                   tables, threads, aio>>

GetK ==
    /\ pc = "header"
    /\ \E impl \in {"blockaio.c", "blockaio.cpp"} :
          ret' = IF impl = "blockaio.c" THEN get_k_blocks_in_stripe(shards)
                 ELSE getKBlocksInStripe(shards)
    /\ pc' = "k"
    /\ UNCHANGED <<rs, call, shard_size, shards, before, original, erasures, kern,
                   mat, tables, threads, aio>>

\* the block of the id at position p of the header, in a stripe
ComputeOffset ==
    /\ pc = "header"
    /\ call.op = "test"
    /\ \E stripe_number \in 0..MaxStripe, p \in 0..(call.k - 1) :
          /\ ret' = computeOffsetToBlock(shards, stripe_number,
                                         shards[OffsetShardIds + p]).value
          /\ call' = [call EXCEPT !.stripe_number = stripe_number, !.p = p]
    /\ pc' = "offset"
    /\ UNCHANGED <<rs, shard_size, shards, before, original, erasures, kern, mat,
                   tables, threads, aio>>

NextStripe == SortedHeader \/ TestHeader \/ GetK \/ ComputeOffset

SpecStripe == Init /\ [][NextStripe]_vars

(***************************************************************************)
(* compute_offset_to_block and computeOffsetToBlock on the headers of      *)
(* SpecStripe, for ids in the header and ids missing from it: SpecOffset.  *)
(* abort() ends the process: no value reaches the caller.                  *)
(***************************************************************************)
ComputeOffsetOf ==
    /\ pc = "header"
    /\ \E impl \in {"blockaio.c", "blockaio.cpp"}, stripe_number \in 0..MaxStripe,
          shard_id \in 0..(MaxShardId + 1) :
          \E r \in {IF impl = "blockaio.c"
                    THEN compute_offset_to_block(shards, stripe_number, shard_id)
                    ELSE computeOffsetToBlock(shards, stripe_number, shard_id)} :
             /\ pc' = IF r.returned THEN "offset" ELSE "aborted"
             /\ ret' = IF r.returned THEN r.value ELSE ret
             /\ call' = [op |-> "offset", impl |-> impl,
                         stripe_number |-> stripe_number, shard_id |-> shard_id]
    /\ UNCHANGED <<rs, shard_size, shards, before, original, erasures, kern, mat,
                   tables, threads, aio>>

NextOffset == SortedHeader \/ TestHeader \/ ComputeOffsetOf

SpecOffset == Init /\ [][NextOffset]_vars

(***************************************************************************)
(* The offsets at the width of the C types: SpecWidth.  stripe_number and  *)
(* start_page are ints; 4096 * K * stripe_number and start_page *          *)
(* PAGE_SIZE are int multiplications.  An int multiplication that          *)
(* overflows is undefined: the build either keeps the low 32 bits or,      *)
(* where the product is converted to a wider type, multiplies at that      *)
(* width.                                                                  *)
(***************************************************************************)
\* the non-negative ints tried: small ones, the powers of two with their
\* predecessors, and the largest
WideInputs ==
    (0..MaxStripe) \cup {2^t : t \in 10..30} \cup {2^t - 1 : t \in 10..30}
       \cup {INT_MAX}

\* the offset argument of io_prep_pread / io_prep_pwrite, a long long, from
\* the int expression start_page * PAGE_SIZE
PrepOffsets(start_page) ==
    {SignExtend(LowInt(Wide(PAGE_SIZE, start_page))), Wide(PAGE_SIZE, start_page)}

\* compute_offset_to_block for the id at position p of the header
ComputeOffsetWide ==
    /\ pc = "header"
    /\ \E impl \in {"blockaio.c", "blockaio.cpp"}, stripe_number \in WideInputs,
          p \in 0..7 :
          \E r \in {IF impl = "blockaio.c"
                    THEN compute_offset_to_block(shards, stripe_number,
                                                 shards[OffsetShardIds + p])
                    ELSE computeOffsetToBlock(shards, stripe_number,
                                              shards[OffsetShardIds + p])} :
             /\ r.returned
             /\ ret' = r.value
             /\ call' = [op |-> "offset", impl |-> impl,
                         stripe_number |-> stripe_number,
                         shard_id |-> shards[OffsetShardIds + p]]
    /\ pc' = "offset"
    /\ UNCHANGED <<rs, shard_size, shards, before, original, erasures, kern, mat,
                   tables, threads, aio>>

\* submit_read / submit_write up to io_prep_pread / io_prep_pwrite
PrepOffset ==
    /\ pc = "start"
    /\ \E kind \in {"read", "write"}, start_page \in WideInputs :
          \E offset \in PrepOffsets(start_page) :
             call' = [op |-> "io_prep", kind |-> kind, start_page |-> start_page,
                      offset |-> offset]
    /\ pc' = "prepared"
    /\ UNCHANGED <<rs, shard_size, shards, before, original, erasures, ret, kern,
                   mat, tables, threads, aio>>

NextWidth == TestHeader \/ ComputeOffsetWide \/ PrepOffset

SpecWidth == Init /\ [][NextWidth]_vars

(***************************************************************************)
(* A caller of the I/O shim and the kernel behind it: SpecAio.  The caller *)
(* submits reads and writes, calls check_completed at any time, and may    *)
(* stop submitting; the kernel completes the ops in flight in any order,   *)
(* each fully, short, or with an error.  SpecDrain is SpecAio with the     *)
(* kernel completing every op and the poll succeeding again and again.     *)
(***************************************************************************)
AioImpls == {"blockaio.c", "blockaio.cpp"}

\* io_submit with nr = 1: one iocb taken, none taken, or -EAGAIN
IoSubmitReturns == {1, 0, -11}

\* res of an event: all bytes, fewer bytes, or -EIO
KernelResults(num_pages) ==
    {PAGE_SIZE * num_pages, PAGE_SIZE * num_pages - 512, -5}

\* the outcomes of malloc/new, posix_memalign and io_submit
SubmitEnvs ==
    [ctx : BOOLEAN, buffer : BOOLEAN, io_submit : IoSubmitReturns]

SubmitRead ==
    /\ aio.process = "running"
    /\ ~aio.stopped
    /\ Len(aio.ctxs) < MaxOps
    /\ \E impl \in AioImpls, num_pages \in {1, MaxPages}, env \in SubmitEnvs :
          \E out \in {submit_read(aio, impl, MaxPages * Len(aio.ctxs), num_pages, env)} :
             /\ aio' = out.aio
             /\ call' = [op |-> "submit_read", returned |-> out.returned]
    /\ pc' = "submit_read"
    /\ UNCHANGED <<rs, shard_size, shards, before, original, erasures, ret, kern,
                   mat, tables, threads>>

SubmitWrite ==
    /\ aio.process = "running"
    /\ ~aio.stopped
    /\ Len(aio.ctxs) < MaxOps
    /\ \E impl \in AioImpls, num_pages \in {1, MaxPages}, env \in SubmitEnvs :
          \E out \in {submit_write(aio, impl, MaxPages * Len(aio.ctxs), num_pages, env)} :
             /\ aio' = out.aio
             /\ ret' = IF out.returned THEN out.ret ELSE ret
             /\ call' = [op |-> "submit_write", returned |-> out.returned]
    /\ pc' = "submit_write"
    /\ UNCHANGED <<rs, shard_size, shards, before, original, erasures, kern, mat,
                   tables, threads>>

\* the caller's decision to submit nothing more
StopSubmitting ==
    /\ aio.process = "running"
    /\ ~aio.stopped
    /\ aio' = [aio EXCEPT !.stopped = TRUE]
    /\ UNCHANGED <<pc, rs, call, shard_size, shards, before, original, erasures,
                   ret, kern, mat, tables, threads>>

\* the kernel finishes one op in flight and queues its event
KernelComplete ==
    /\ aio.process = "running"
    /\ \E ctx \in DOMAIN aio.ctxs :
          /\ aio.ctxs[ctx].state = "inflight"
          /\ \E res \in KernelResults(aio.ctxs[ctx].num_pages) :
                aio' = [aio EXCEPT !.ctxs[ctx].state = "completed",
                                   !.ring = Append(@, [data |-> ctx, res |-> res])]
    /\ UNCHANGED <<pc, rs, call, shard_size, shards, before, original, erasures,
                   ret, kern, mat, tables, threads>>

\* check_completed when io_getevents takes the queued events, at most
\* MAX_EVENTS of them
CheckCompletedPolled ==
    /\ aio.process = "running"
    /\ \E completed \in {IF Len(aio.ring) < MAX_EVENTS THEN Len(aio.ring)
                         ELSE MAX_EVENTS} :
          \E out \in {check_completed(aio, completed)} :
             aio' = out.aio /\ ret' = out.ret
    /\ pc' = "check_completed"
    /\ call' = [op |-> "check_completed"]
    /\ UNCHANGED <<rs, shard_size, shards, before, original, erasures, kern, mat,
                   tables, threads>>

\* check_completed when io_getevents fails with -EINTR
CheckCompletedFailed ==
    /\ aio.process = "running"
    /\ \E out \in {check_completed(aio, -4)} :
          aio' = out.aio /\ ret' = out.ret
    /\ pc' = "check_completed"
    /\ call' = [op |-> "check_completed"]
    /\ UNCHANGED <<rs, shard_size, shards, before, original, erasures, kern, mat,
                   tables, threads>>

NextAio ==
    \/ SubmitRead
    \/ SubmitWrite
    \/ StopSubmitting
    \/ KernelComplete
    \/ CheckCompletedPolled
    \/ CheckCompletedFailed

SpecAio == Init /\ [][NextAio]_vars

SpecDrain ==
    Init /\ [][NextAio]_vars /\ WF_vars(KernelComplete) /\ WF_vars(CheckCompletedPolled)

(***************************************************************************)
(* matrix_invert on arbitrary square matrices, as test_matrix_invert calls *)
(* it, and again on its own result: SpecInvert.                            *)
(***************************************************************************)
InvertAny ==
    /\ mat.op = "idle"
    /\ \E n \in 1..3 :
          \E A \in [0..(n * n - 1) -> IF n < 3 THEN 0..MaxInvertEntry
                                       ELSE {0, 1, MaxInvertEntry}] :
             \E r \in {matrix_invert(A, n)} :
                mat' = [op |-> "inverted", n |-> n, sub |-> A,
                        ret |-> r.ret, out |-> r.matrix]
    /\ UNCHANGED <<pc, rs, call, shard_size, shards, before, original, erasures,
                   ret, kern, tables, threads, aio>>

InvertBack ==
    /\ mat.op = "inverted"
    /\ mat.ret = 1
    /\ \E r \in {matrix_invert(mat.out, mat.n)} :
          mat' = [op |-> "inverted_back", n |-> mat.n, sub |-> mat.sub,
                  ret |-> mat.ret, out |-> mat.out,
                  ret_back |-> r.ret, back |-> r.matrix]
    /\ UNCHANGED <<pc, rs, call, shard_size, shards, before, original, erasures,
                   ret, kern, tables, threads, aio>>

NextInvert == InvertAny \/ InvertBack

SpecInvert == Init /\ [][NextInvert]_vars

(***************************************************************************)
(* one coder shared by several callers: SpecShared.  rs_encode, rs_decode  *)
(* and rs_generic_galois_coding read rs->matrix and rs->parity and write   *)
(* only the caller's buffers and scratch they malloc themselves.           *)
(***************************************************************************)
\* another caller runs rs_decode on the same coder, with buffers of its own
\* and an erasure pattern of its own, between two steps of this caller
OtherCall ==
    /\ pc \in {"filled", "encoded", "erased"}
    /\ \E E \in SUBSET (0..(rs.shards - 1)) :
          /\ Cardinality(E) \in 1..rs.parity_shards
          /\ \E other \in {[i \in 0..(rs.shards - 1) |-> IF i \in E THEN 1 ELSE 0]} :
                \E inv \in {matrix_invert(
                              [p \in 0..(rs.data_shards * rs.data_shards - 1) |->
                                  rs.matrix[ValidShard(other, rs.shards,
                                                       p \div rs.data_shards)
                                              * rs.data_shards
                                            + (p % rs.data_shards)]],
                              rs.data_shards)} :
                   /\ rs' = CoderAfter(rs, inv.matrix)
                   /\ call' = [op |-> "rs_decode", caller |-> "other",
                               erasures |-> other]
    /\ UNCHANGED <<pc, shard_size, shards, before, original, erasures, ret, kern, mat, tables, threads, aio>>

\* this caller's rs_decode; interleaved: the other caller's call ran since
\* this caller's last step
DecodeShared ==
    /\ pc = "erased"
    /\ \E h \in DecodeHeaps :
          \E r \in {rs_decode(rs, shards, erasures, Cardinality(Erased), shard_size, h)} :
             /\ shards' = r.shards
             /\ ret' = r.ret
             /\ call' = [op |-> "rs_decode", caller |-> "this", heap |-> h,
                         interleaved |-> call.op = "rs_decode"]
    /\ before' = shards
    /\ pc' = "decoded"
    /\ UNCHANGED <<rs, shard_size, original, erasures, kern, mat, tables, threads, aio>>

\* the coders the callers share: rs_new(2, 2) and rs_new(3, 2)
NewShared == \E K \in {2, 3} : RsNew(K, 2)

NextShared == NewShared \/ FillTest \/ Encode \/ Erase \/ OtherCall \/ DecodeShared

SpecShared == Init /\ [][NextShared]_vars

(***************************************************************************)
(* Properties.                                                             *)
(***************************************************************************)
\* C3: after mul1_avx2(dst, src, c, n), dst[i] = MUL[c][src[i]] for every
\* i < n, and after mul_add1_avx2, dst[i] = (dst[i] before) XOR
\* MUL[c][src[i]], for every length n, those of 64 and more included.
C3_BulkAgreesWithScalar ==
    /\ kern.op = "mul1" =>
         \A i \in 0..(kern.sz - 1) : kern.dst[i] = gf_mul(kern.c, kern.src[i])
    /\ kern.op = "mul_add1" =>
         \A i \in 0..(kern.sz - 1) :
            kern.dst[i] = Xor(kern.dst0[i], gf_mul(kern.c, kern.src[i]))

\* C4: rs_new(K,M) returns a coder exactly when 1 <= K, 1 <= M and
\* K + M <= 255.
C4_CoderIffInRange ==
    pc = "new" =>
        ((rs # NULL) <=> (/\ 1 <= call.data_shards
                          /\ 1 <= call.parity_shards
                          /\ call.data_shards + call.parity_shards <= 255))

\* C5: in every coder rs_new returns, rows 0..K-1 of rs->matrix are the K x K
\* identity and rs->parity is rows K..K+M-1 of rs->matrix.
C5_SystematicForm ==
    (pc = "new" /\ rs # NULL) =>
        /\ \A r \in 0..(rs.data_shards - 1), c \in 0..(rs.data_shards - 1) :
              rs.matrix[r * rs.data_shards + c] = (IF r = c THEN 1 ELSE 0)
        /\ DOMAIN rs.parity = 0..(rs.parity_shards * rs.data_shards - 1)
        /\ \A p \in DOMAIN rs.parity :
              rs.parity[p] = rs.matrix[rs.data_shards * rs.data_shards + p]

\* a coder with several data and several parity shards was built
C5_Witness ==
    /\ pc = "new"
    /\ rs # NULL
    /\ rs.data_shards = 4
    /\ rs.parity_shards = 3
    /\ Cardinality(DOMAIN rs.matrix) = 28

\* C6: matrix_invert returns 1 on every square submatrix (any rows, any
\* equally many columns) of cauchy(N,K), N + K <= 255.
C6_CauchySubmatricesInvertible ==
    mat.op = "inverted" => mat.ret = 1

\* a 4 x 4 submatrix of cauchy(6,4), the matrix of the test, was inverted
C6_Witness ==
    /\ mat.op = "inverted"
    /\ mat.N = 6
    /\ mat.K = 4
    /\ mat.n = 4
    /\ mat.rows = {1, 2, 4, 5}
    /\ mat.ret = 1

\* C1: after rs_encode and rs_decode with at most M shards erased, on shards
\* of a multiple of 64 bytes, rs_decode has returned 1 and all K+M shard
\* buffers are what they were right after rs_encode.
C1_RoundTrip ==
    (/\ pc = "decoded"
     /\ shard_size % 64 = 0
     /\ Cardinality(Erased) <= rs.parity_shards)
        => (ret = 1 /\ shards = original)

\* C2: with K = 4, M = 2, shard_size = 4 and 0, 1 or 2 of the 6 shards zeroed
\* and flagged, rs_decode returns 1 and data shards 0..3 are what they were
\* after rs_encode.
C2_TestDecodeRestoresData ==
    (/\ pc = "decoded"
     /\ rs.data_shards = 4
     /\ rs.parity_shards = 2
     /\ shard_size = 4
     /\ Cardinality(Erased) <= 2)
        => (ret = 1 /\ \A i \in 0..3 : shards[i] = original[i])

\* test case 3 of test_rs_decode: shards 0 and 2 zeroed, flagged and restored
C2_Witness ==
    /\ pc = "decoded"
    /\ rs.data_shards = 4
    /\ rs.parity_shards = 2
    /\ shard_size = 4
    /\ Erased = {0, 2}
    /\ before[0] = [b \in 0..3 |-> 0]
    /\ before[2] = [b \in 0..3 |-> 0]
    /\ shards[0] = [b \in 0..3 |-> b]
    /\ shards[2] = [b \in 0..3 |-> 8 + b]
    /\ ret = 1

\* C7: rs_encode leaves parity[i][b] = XOR over j < K of
\* MUL[P[i,j]][data[j][b]] for every i < M and b < shard_size, whatever the
\* parity buffers held, and leaves the data buffers as they were.
C7_EncodeIsMatrixProduct ==
    pc = "encoded" =>
        /\ \A i \in 0..(rs.parity_shards - 1), b \in 0..(shard_size - 1) :
              LET Term(j) == gf_mul(rs.parity[i * rs.data_shards + j], before[j][b])
              IN shards[rs.data_shards + i][b] = XorOver(Term, 0, rs.data_shards)
        /\ \A j \in 0..(rs.data_shards - 1) : shards[j] = before[j]

\* C8: after rs_decode has returned 1, every erased parity shard (i >= K) holds
\* the value rs_encode produced for it.
C8_DecodeRebuildsParity ==
    (pc = "decoded" /\ ret = 1) =>
        \A i \in Erased : i >= rs.data_shards => shards[i] = original[i]

\* C9: with more than M shards flagged, rs_decode returns 0 and writes to no
\* shard; when it returns 1 it has written to flagged shards only; with no
\* shard flagged it returns 1 and writes nothing.
C9_DecodeFrame ==
    pc = "decoded" =>
        /\ Cardinality(Erased) > rs.parity_shards => (ret = 0 /\ shards = before)
        /\ ret = 1 => \A i \in DOMAIN shards : erasures[i] = 0 => shards[i] = before[i]
        /\ Erased = {} => (ret = 1 /\ shards = before)

\* rs_decode refused three erasures with M = 2, and left the zeroed shards zeroed
C9_Witness ==
    /\ pc = "decoded"
    /\ rs.parity_shards = 2
    /\ Erased = {0, 1, 4}
    /\ ret = 0
    /\ shards = before
    /\ shards[0] # original[0]

\* C10: after rs_generic_galois_coding, given K surviving shards as inputs and
\* the zeroed shards as outputs, every output shard holds the bytes rs_encode
\* left in it (for the data shards as inputs and the parity shards as outputs:
\* the parity rs_encode computes).
C10_GenericRebuildsOutputs ==
    pc = "coded" => \A i \in Erased : shards[i] = original[i]

\* C11: rs_generic_galois_coding returns 0 and leaves every shard as it was
\* when an input id is repeated (the selected rows of G are dependent), and on
\* no call does it change an input shard.
C11_GenericInputsReadOnly ==
    pc = "coded" =>
        /\ (\E p, q \in 0..(call.input_count - 1) :
               p # q /\ call.shard_ids[p] = call.shard_ids[q])
              => (ret = 0 /\ shards = before)
        /\ \A p \in 0..(call.input_count - 1) :
              shards[call.shard_ids[p]] = before[call.shard_ids[p]]

\* C12: for every a and every b >= 1, gf_div(gf_mul(a, b), b) = a and
\* gf_mul(gf_div(a, b), b) = a.
C12_MulDivInverse ==
    (pc = "gf" /\ call.op \in {"gf_div(gf_mul)", "gf_mul(gf_div)"}) => ret = call.a

\* gf_div(gf_mul(0x53, 0x8C), 0x8C) gave back 0x53 by way of the product 1
C12_Witness ==
    /\ pc = "gf"
    /\ call = [op |-> "gf_div(gf_mul)", a |-> 83, b |-> 140]
    /\ ret = 83

\* C13 as stated: gf_mul(0x53, 0xCA) = 0x01 and gf_div(0x01, 0x53) = 0xCA.
C13_AesInversePair ==
    pc = "gf" =>
        /\ call = [op |-> "gf_mul", a |-> 83, b |-> 202] => ret = 1
        /\ call = [op |-> "gf_div", a |-> 1, b |-> 83] => ret = 202

\* C13 amended: in the field of init_gf the inverse of 0x53 is 0x8C:
\* gf_mul(0x53, 0x8C) = 0x01 and gf_div(0x01, 0x53) = 0x8C, while
\* gf_mul(0x53, 0xCA) = 0x8F.
C13_InverseOf53 ==
    pc = "gf" =>
        /\ call = [op |-> "gf_mul", a |-> 83, b |-> 140] => ret = 1
        /\ call = [op |-> "gf_div", a |-> 1, b |-> 83] => ret = 140
        /\ call = [op |-> "gf_mul", a |-> 83, b |-> 202] => ret = 143

\* gf_div(0x01, 0x53) was called and returned 0x8C
C13_Witness ==
    /\ pc = "gf"
    /\ call = [op |-> "gf_div", a |-> 1, b |-> 83]
    /\ ret = 140

\* C14: a call gf_div(a, 0) ends the process and returns no value.
C14_DivByZeroExits ==
    (call.op = "gf_div" /\ call.b = 0) => pc = "exit"

\* C15: once a call of init_gf has returned, no statement of a further or a
\* concurrent call makes an entry of the four tables differ from its final
\* value; in particular two interleaved first calls leave the tables of one.
C15_InitGfStable ==
    (\E id \in DOMAIN threads : threads[id].returned) => tables = FieldTables

\* one thread has returned and the other is in the middle of the table loop
C15_Witness ==
    /\ pc = "init"
    /\ threads[1].returned
    /\ threads[1].pc = "idle"
    /\ threads[2].pc = "div_store"
    /\ threads[2].i = 1
    /\ tables = FieldTables

\* C16: for a buffer of 16 * k * q bytes, spread puts the c-th 16-byte chunk
\* in block c mod k at byte offset 16 * (c div k), and unspread gives the
\* buffer back; blockaio.c and blockaio.cpp alike.
C16_SpreadUnspread ==
    /\ pc \in {"spread", "unspread"} =>
          \A c \in 0..((call.input_size \div 16) - 1), b \in 0..15 :
             shards[c % call.k][16 * (c \div call.k) + b] = call.input[16 * c + b]
    /\ pc = "unspread" => call.output = call.input

\* the test: k = 3, two rounds, input[i] = i; block 1 holds bytes 16..31, 64..79
C16_Witness ==
    /\ pc = "unspread"
    /\ call.impl = "blockaio.cpp"
    /\ call.k = 3
    /\ call.input_size = 96
    /\ call.input[95] = 95
    /\ shards[1][0] = 16
    /\ shards[1][16] = 64
    /\ call.output = call.input

\* C17: a header with version_number = 1 and volume_prefix_id >= 2^24 whose
\* header_crc32c is set to crc32c(header, sizeof(header) - 4, 0), computed
\* before the field was written, is accepted by validateHeader.
C17_StampedHeaderAccepted ==
    (pc = "validated" /\ call.op = "header") => ret = TRUE

\* C18: validateBlock is true right after block_checksum is set to the
\* crc32c of bytes 4..4095, and false after a change of one of those bytes.
C18_BlockChecksum ==
    (pc = "validated" /\ call.op = "block") => (ret = ~call.mutated)

\* a stamped block whose shard id byte was changed has been rejected
C18_Witness ==
    /\ pc = "validated"
    /\ call.op = "block"
    /\ call.mutated
    /\ shards[8] # before[8]
    /\ \A b \in 0..(SizeofBlock - 1) : b # 8 => shards[b] = before[b]
    /\ Load32(shards, 0) = crc32c(before, 4, SizeofBlock - 4, U32(0, 0))
    /\ ret = FALSE

\* C19: for a header whose 8 shard_ids are sorted non-decreasing,
\* get_k_blocks_in_stripe (and getKBlocksInStripe) returns the number of
\* distinct values among them, and the result is in 1..8.
C19_CountsDistinctIds ==
    (pc = "k" /\ call.op = "sorted") =>
        /\ ret = Cardinality({shards[OffsetShardIds + i] : i \in 0..7})
        /\ ret \in 1..8

\* C20: for a header built as the tests build it (k distinct nonzero ids,
\* then zeros), getKBlocksInStripe returns k and computeOffsetToBlock of
\* stripe s and the id at position p returns 4096 * (k * s + p).
C20_TestHeaderLayout ==
    call.op = "test" =>
        /\ pc = "k" => ret = call.k
        /\ pc = "offset" => ret = 4096 * (call.k * call.stripe_number + call.p)

C22_ReadFailureSurfaced ==
    (pc = "submit_read" /\ ~aio.last.enqueued /\ aio.last.ctx # "none") =>
        /\ aio.process = "running"
        /\ call.returned
        /\ aio.last.ctx \in {"none", "freed"}
        /\ aio.last.buffer \in {"none", "freed"}

\* C23: submit_write returns 0 exactly when the write was enqueued, its
\* context and buffer then staying allocated; for every other outcome of
\* the allocations or of io_submit it returns a nonzero code with the
\* context and the buffer freed.
C23_WriteReturnsZeroIffEnqueued ==
    pc = "submit_write" =>
        /\ call.returned
        /\ (ret = 0) <=> aio.last.enqueued
        /\ aio.last.enqueued =>
              aio.last.ctx = "allocated" /\ aio.last.buffer = "allocated"
        /\ ~aio.last.enqueued =>
              aio.last.ctx \in {"none", "freed"} /\ aio.last.buffer \in {"none", "freed"}

\* C24: an enqueued op's context and buffer are freed exactly once, by the
\* check_completed call that takes its completion event off the ring: not
\* while the op is in flight or its event is still queued, and not again.
C24_BufferOwnership ==
    /\ ~aio.heap_error
    /\ \A c \in DOMAIN aio.ctxs :
          /\ aio.ctxs[c].state \in {"inflight", "completed"} =>
                /\ aio.ctxs[c].buffer = "allocated"
                /\ aio.freed[c] = [ctx |-> 0, buffer |-> 0]
          /\ aio.ctxs[c].state = "freed" =>
                /\ aio.ctxs[c].buffer = "freed"
                /\ aio.freed[c] = [ctx |-> 1, buffer |-> 1]
          /\ (aio.ctxs[c].state = "completed") <=>
                (\E i \in DOMAIN aio.ring : aio.ring[i].data = c)
    /\ \A i, j \in DOMAIN aio.ring : aio.ring[i].data = aio.ring[j].data => i = j

\* the op submitted second completed first and was reaped; the event of the
\* first is still queued and its buffer still allocated
C24_Witness ==
    /\ pc = "check_completed"
    /\ Len(aio.ctxs) = 2
    /\ aio.ctxs[2].state = "freed"
    /\ aio.freed[2] = [ctx |-> 1, buffer |-> 1]
    /\ aio.ctxs[1].state = "completed"
    /\ aio.ctxs[1].buffer = "allocated"
    /\ aio.ring = <<[data |-> 1, res |-> PAGE_SIZE * aio.ctxs[1].num_pages]>>
    /\ ret = MaxPages

\* every context and buffer is freed, nothing is queued, and the returns of
\* check_completed add up to the pages enqueued
Drained ==
    /\ \A c \in DOMAIN aio.ctxs :
          aio.ctxs[c].state = "freed" /\ aio.ctxs[c].buffer = "freed"
    /\ aio.ring = <<>>
    /\ aio.reaped_pages = aio.enqueued_pages

\* C25: once the caller has stopped submitting, with the kernel completing
\* every op and the caller polling on, the outstanding ops drain: nothing
\* stays allocated and the returns of check_completed sum to the pages
\* enqueued; a call takes at most MAX_EVENTS events and returns 0 when it
\* took none.
C25_Drain ==
    /\ [](pc = "check_completed" =>
             /\ aio.last.completed <= MAX_EVENTS
             /\ aio.last.completed <= 0 => ret = 0)
    /\ aio.stopped ~> Drained

\* two ops of 1 and MaxPages pages were enqueued and both reaped after the
\* caller stopped
C25_Witness ==
    /\ aio.stopped
    /\ Drained
    /\ Len(aio.ctxs) = 2
    /\ aio.enqueued_pages = 1 + MaxPages
    /\ pc = "check_completed"
    /\ aio.last.completed = 1

\* C26: when an event reports a failed or short transfer, or io_getevents
\* itself fails, check_completed tells its caller through its return, and
\* the pages of a failed op are not counted as completed.
C26_ReapSurfacesErrors ==
    pc = "check_completed" =>
        /\ (aio.last.completed < 0 \/ aio.last.failed_pages > 0) => ret < 0
        /\ aio.last.failed_pages > 0 => ret # aio.last.total_written

\* the determinant over GF(2^8) by expansion along the first row (signs
\* vanish in characteristic 2)
RECURSIVE Determinant(_, _)
Determinant(A, n) ==
    IF n = 1 THEN A[0]
    ELSE LET Minor(c) == [p \in 0..((n - 1) * (n - 1) - 1) |->
                             A[(1 + (p \div (n - 1))) * n
                               + (IF (p % (n - 1)) < c THEN p % (n - 1)
                                  ELSE (p % (n - 1)) + 1)]]
             Term(c) == gf_mul(A[c], Determinant(Minor(c), n - 1))
         IN  XorOver(Term, 0, n)

\* C27: matrix_invert(A, n) returns 1 exactly when A is nonsingular, and
\* then leaves the inverse in place of A: A * A^-1 = A^-1 * A = I, and
\* inverting the result gives A back; for a singular matrix (the zero matrix
\* among them) it returns 0; the identity is left as it is.
C27_InvertIffNonsingular ==
    mat.op \in {"inverted", "inverted_back"} =>
        /\ (mat.ret = 1) <=> (Determinant(mat.sub, mat.n) # 0)
        /\ mat.ret \in {0, 1}
        /\ mat.ret = 1 =>
              /\ is_identity(matrix_multiply(mat.sub, mat.out, mat.n), mat.n)
              /\ is_identity(matrix_multiply(mat.out, mat.sub, mat.n), mat.n)
        /\ is_identity(mat.sub, mat.n) => mat.out = mat.sub
        /\ mat.op = "inverted_back" => mat.ret_back = 1 /\ mat.back = mat.sub

\* a 3 x 3 matrix with a zero on the diagonal, so that rows are swapped, was
\* inverted and inverted back
C27_Witness ==
    /\ mat.op = "inverted_back"
    /\ mat.n = 3
    /\ mat.sub = [p \in 0..8 |-> <<0, 1, 2, 1, 0, 0, 2, 2, 1>>[p + 1]]
    /\ mat.ret = 1
    /\ mat.out # mat.sub
    /\ mat.back = mat.sub

C30_NoWrap ==
    /\ (pc = "offset" /\ call.op = "offset") =>
          LET first == CHOOSE p \in 0..7 :
                          /\ shards[OffsetShardIds + p] = call.shard_id
                          /\ \A i \in 0..(p - 1) :
                                shards[OffsetShardIds + i] # call.shard_id
              exact == WideAdd(Wide(4096 * get_k_blocks_in_stripe(shards),
                                    call.stripe_number),
                               4096 * first)
          IN  /\ exact.top = 0
              /\ exact.hi < 32768
              /\ ret = exact.hi * 65536 + exact.lo
    /\ pc = "prepared" => call.offset = Wide(PAGE_SIZE, call.start_page)

=============================================================================
